---------------------------- MODULE Spec2Model ----------------------------
(***************************************************************************)
(* A model of three parts of hyperhyperspace-core:                         *)
(*                                                                         *)
(*   - the async streams of src/src/storage/store/Store.ts (lines 795 on): *)
(*     BufferingAsyncStreamSource and BufferedAsyncStream;                 *)
(*   - the Store of src/src/storage/store/Store.ts: save, the dependency   *)
(*     check, saveWithContext and its causal-invalidation maintenance,     *)
(*     the watch callbacks;                                                *)
(*   - the PeerGroupAgent of src/src/data/model/immutable/HashedObject.ts  *)
(*     (lines 1083 on).                                                    *)
(*                                                                         *)
(* Each part has its own next-state relation and specification; the        *)
(* variables of the other parts stay at their initial values.              *)
(***************************************************************************)
EXTENDS Integers, Sequences, FiniteSets, TLC

(***************************************************************************)
(* Bounds of the model.                                                    *)
(***************************************************************************)
\* maxBufferSize is drawn from 0..MaxBuf, or left undefined
MaxBuf == 1
\* number of ingest() calls on the source
MaxItems == 2
\* number of next() calls, over all consumers
MaxCalls == 1

\* number of ops queued on the mutable objects at a time
MaxQueued == 1

\* number of callbacks registered on the store
MaxWatches == 1

\* number of watch registrations made while callbacks throw
MaxWatched == 2

VARIABLES
    \* ---- async streams ----
    src,        \* the BufferingAsyncStreamSource
    stream,     \* the BufferedAsyncStream consumers
    promise,    \* the promises returned by next(), per consumer
    sghost,     \* history of the stream run, used only to state properties
    \* ---- store ----
    backend,    \* the backend: stored hash -> number of store() calls, header
    unsaved,    \* MutableObject._unsavedOps: mutable -> queued op hashes
    watches,    \* the three callback tables of the Store
    last,       \* what the last save() call did, used to state properties
    due,        \* pairs <<o, inv>>: op o was stored when inv was saved later
    \* ---- peer group agent ----
    agents,     \* the PeerGroupAgent of each endpoint
    net,        \* the transport: the state of each connection
    secured,    \* <<endpoint, connId>>: both identities verified at endpoint
    inbox,      \* the events not yet delivered to the agents
    peerSource, \* the PeerSource of each endpoint: its candidates, in order
    \* ---- hashed objects ----
    held,       \* the HashedObject the application works on
    ctx,        \* a Context it literalizes into and deliteralizes from
    outcome,    \* what the last operation on them was and gave
    saved,      \* the literals the backend of its store holds, by hash
    \* ---- filtered stream source ----
    filtered,   \* a FilteredAsyncStreamSource whose upstream is src
    \* ---- overlapping saves ----
    inFlight,   \* the save() calls in flight on the store, each at an await
    \* ---- time ----
    clock       \* Date.now(), in milliseconds since the agents were built

streamVars == <<src, stream, promise, sghost>>
storeVars == <<backend, unsaved, watches, last, due>>
peerVars == <<agents, net, secured, inbox, peerSource>>
objVars == <<held, ctx, outcome, saved>>
filterVars == <<filtered>>
callVars == <<inFlight>>
timeVars == <<clock>>

vars == <<src, stream, promise, sghost, backend, unsaved, watches, last, due,
          agents, net, secured, inbox, peerSource, held, ctx, outcome, saved,
          filtered, inFlight, clock>>

(***************************************************************************)
(* Generic helpers.                                                        *)
(***************************************************************************)
Range(s) == {s[i] : i \in 1..Len(s)}

\* let x = value in Body(x), the value computed once
With(value, Body(_)) == CHOOSE r \in {Body(x) : x \in {value}} : TRUE

\* Array.prototype.shift: the array without its first element
Shift(s) == IF s = <<>> THEN <<>> ELSE Tail(s)

\* s without its element at index i (Array.prototype.splice(i, 1))
Splice(s, i) == SubSeq(s, 1, i - 1) \o SubSeq(s, i + 1, Len(s))

(***************************************************************************)
(*                          ASYNC STREAMS                                  *)
(***************************************************************************)
\* two consumers of the one source
Consumers == {"s1", "s2"}
CallIds == 1..MaxCalls

\* constructor(maxBufferSize?: number): undefined, or a number
MaxBufferSizes == {[defined |-> FALSE, n |-> 0]} \cup
                  {[defined |-> TRUE, n |-> m] : m \in 0..MaxBuf}

NoStream == [made |-> FALSE, buffer |-> <<>>, pending |-> <<>>,
             isAtEnd |-> FALSE, isClosed |-> FALSE]

\* a promise returned by next(): st is none (not called yet), pending, resolved,
\* timeout or end; timer says that its timeout is armed.  A timer is tracked
\* only while its promise is pending: the timeout callback of a settled
\* promise finds nothing in pending and its reject() does nothing.
NoPromise == [st |-> "none", timer |-> FALSE]

StreamInit ==
    /\ src \in {[maxBufferSize |-> m, buffer |-> <<>>,
                 itemSubscriptions |-> {}, endSubscriptions |-> {}] :
                    m \in MaxBufferSizes}
    /\ stream = [k \in Consumers |-> NoStream]
    /\ promise = [k \in Consumers |-> [i \in CallIds |-> NoPromise]]
    \* ingested: the number of items ingested; ended: end() was called;
    \* snapshot[k]: the source's buffer when consumer k was constructed;
    \* later[k]: the items ingested since, until k's close();
    \* delivered[k]: the items k has handed out, through next() and
    \* nextIfAvailable(), in the order it handed them out
    /\ sghost = [ingested |-> 0, ended |-> FALSE,
                 snapshot |-> [k \in Consumers |-> <<>>],
                 later |-> [k \in Consumers |-> <<>>],
                 delivered |-> [k \in Consumers |-> <<>>]]

\* BufferedAsyncStream.itemCallback, for element elem: the consumer st, its
\* promises pr and the items dl it has handed out, afterwards.  resolve()
\* hands the element out only if the promise is not settled yet.
itemCallback(elem, st, pr, dl) ==
    IF Len(st.pending) > 0
    THEN LET p == Head(st.pending)
         IN  IF pr[p].st = "pending"
             THEN [st |-> [st EXCEPT !.pending = Tail(@)],
                   pr |-> [pr EXCEPT ![p] = [st |-> "resolved", timer |-> FALSE]],
                   dl |-> Append(dl, elem)]
             ELSE [st |-> [st EXCEPT !.pending = Tail(@)], pr |-> pr, dl |-> dl]
    ELSE [st |-> [st EXCEPT !.buffer = Append(@, elem)], pr |-> pr, dl |-> dl]

\* BufferedAsyncStream.endCallback
endCallback(st, pr) ==
    [st |-> [st EXCEPT !.pending = <<>>, !.isAtEnd = TRUE],
     pr |-> [i \in CallIds |->
                IF i \in Range(st.pending) /\ pr[i].st = "pending"
                THEN [st |-> "end", timer |-> FALSE]
                ELSE pr[i]]]

(***************************************************************************)
(* The FilteredAsyncStreamSource built on the source with a filter.  Its   *)
(* subscribers are callbacks of the application; a Set is kept as the      *)
(* sequence of its elements in insertion order.  got and ends record what  *)
(* each subscriber was called with, to state properties.                   *)
(***************************************************************************)
Subscribers == {"f1", "f2"}

\* the two callbacks the filtered source subscribes upstream with
upstreamItemCallbackRef == "upstreamItemCallback"
upstreamEndCallbackRef == "upstreamEndCallback"

\* the filter the source is built with: it lets the even items through
filter(elem) == elem % 2 = 0

\* Set.add, Set.delete
SetAdd(s, x) == IF x \in Range(s) THEN s ELSE Append(s, x)
SetDelete(s, x) == SelectSeq(s, LAMBDA y : y # x)

NewFiltered ==
    [itemSubscribers |-> <<>>, endSubscribers |-> <<>>,
     got |-> [cb \in Subscribers |-> <<>>],
     ends |-> [cb \in Subscribers |-> 0]]

FilterInit == filtered = NewFiltered

\* this.upstreamItemCallback
upstreamItemCallback(f, elem) ==
    IF filter(elem)
    THEN [f EXCEPT !.got = [cb \in Subscribers |->
                              IF cb \in Range(f.itemSubscribers)
                              THEN Append(@[cb], elem) ELSE @[cb]]]
    ELSE f

\* this.upstreamEndCallback
upstreamEndCallback(f) ==
    [f EXCEPT !.ends = [cb \in Subscribers |->
                          IF cb \in Range(f.endSubscribers) THEN @[cb] + 1 ELSE @[cb]]]

\* the four calls below work on fs: the filtered source f and its upstream up
subscribeNewItem(fs, cb) ==
    LET doSubscribe == Len(fs.f.itemSubscribers) = 0
    IN  [f  |-> [fs.f EXCEPT !.itemSubscribers = SetAdd(@, cb)],
         up |-> IF doSubscribe
                THEN [fs.up EXCEPT !.itemSubscriptions = @ \cup {upstreamItemCallbackRef}]
                ELSE fs.up]

subscribeEnd(fs, cb) ==
    LET doSubscribe == Len(fs.f.endSubscribers) = 0
    IN  [f  |-> [fs.f EXCEPT !.endSubscribers = SetAdd(@, cb)],
         up |-> IF doSubscribe
                THEN [fs.up EXCEPT !.endSubscriptions = @ \cup {upstreamEndCallbackRef}]
                ELSE fs.up]

unsubscribeNewItemKeepsUpstream(fs, cb) ==
    [f  |-> [fs.f EXCEPT !.itemSubscribers = SetDelete(@, cb)], up |-> fs.up]

unsubscribeNewItem(fs, cb) ==
    LET beforeSize == Len(fs.f.itemSubscribers)
        after == SetDelete(fs.f.itemSubscribers, cb)
    IN  [f  |-> [fs.f EXCEPT !.itemSubscribers = after],
         up |-> IF beforeSize > 0 /\ Len(after) = 0
                THEN [fs.up EXCEPT !.itemSubscriptions = @ \ {upstreamItemCallbackRef}]
                ELSE fs.up]

unsubscribeEnd(fs, cb) ==
    LET beforeSize == Len(fs.f.endSubscribers)
        after == SetDelete(fs.f.endSubscribers, cb)
    IN  [f  |-> [fs.f EXCEPT !.endSubscribers = after],
         up |-> IF beforeSize > 0 /\ Len(after) = 0
                THEN [fs.up EXCEPT !.endSubscriptions = @ \ {upstreamEndCallbackRef}]
                ELSE fs.up]

\* filtered.current()
currentFiltered(up) == SelectSeq(up.buffer, filter)

\* a call on the filtered source has led to fs
Called(fs) ==
    /\ filtered' = fs.f
    /\ src' = fs.up
    /\ <<filtered', src'>> # <<filtered, src>>
    /\ UNCHANGED <<stream, promise, sghost>>

SubscribeNewItem(cb) == Called(subscribeNewItem([f |-> filtered, up |-> src], cb))
SubscribeEnd(cb) == Called(subscribeEnd([f |-> filtered, up |-> src], cb))
UnsubscribeNewItem(cb) == Called(unsubscribeNewItem([f |-> filtered, up |-> src], cb))
UnsubscribeEnd(cb) == Called(unsubscribeEnd([f |-> filtered, up |-> src], cb))

\* BufferingAsyncStreamSource.ingest(item); the items are numbered 1, 2, ...
\* in the order they are ingested
IngestBuffer(buffer, maxBufferSize, item) ==
    LET shifted == IF maxBufferSize.defined /\ maxBufferSize.n = Len(buffer)
                   THEN Shift(buffer) ELSE buffer
    IN  Append(shifted, item)

Ingest ==
    /\ sghost.ingested < MaxItems
    /\ ~sghost.ended
    /\ LET item == sghost.ingested + 1
           res == [k \in Consumers |->
                     IF k \in src.itemSubscriptions
                     THEN itemCallback(item, stream[k], promise[k],
                                       sghost.delivered[k])
                     ELSE [st |-> stream[k], pr |-> promise[k],
                           dl |-> sghost.delivered[k]]]
       IN  /\ src' = [src EXCEPT
                        !.buffer = IngestBuffer(@, src.maxBufferSize, item)]
           /\ stream' = [k \in Consumers |-> res[k].st]
           /\ promise' = [k \in Consumers |-> res[k].pr]
           /\ filtered' = IF upstreamItemCallbackRef \in src.itemSubscriptions
                          THEN upstreamItemCallback(filtered, item)
                          ELSE filtered
           /\ sghost' = [sghost EXCEPT
                           !.ingested = item,
                           !.delivered = [k \in Consumers |-> res[k].dl],
                           !.later = [k \in Consumers |->
                                       IF stream[k].made /\ ~stream[k].isClosed
                                       THEN Append(@[k], item) ELSE @[k]]]

\* BufferingAsyncStreamSource.end()
End ==
    /\ ~sghost.ended
    /\ stream' = [k \in Consumers |->
                    IF k \in src.endSubscriptions
                    THEN endCallback(stream[k], promise[k]).st ELSE stream[k]]
    /\ promise' = [k \in Consumers |->
                    IF k \in src.endSubscriptions
                    THEN endCallback(stream[k], promise[k]).pr ELSE promise[k]]
    /\ filtered' = IF upstreamEndCallbackRef \in src.endSubscriptions
                   THEN upstreamEndCallback(filtered)
                   ELSE filtered
    /\ sghost' = [sghost EXCEPT !.ended = TRUE]
    /\ UNCHANGED src

\* new BufferedAsyncStream(provider): the buffer the consumer starts with
InitialBuffer(provider) == provider.buffer

NewBufferedAsyncStream(k) ==
    /\ ~stream[k].made
    /\ stream' = [stream EXCEPT ![k] =
                    [made |-> TRUE, buffer |-> InitialBuffer(src),
                     pending |-> <<>>, isAtEnd |-> FALSE, isClosed |-> FALSE]]
    /\ src' = [src EXCEPT !.itemSubscriptions = @ \cup {k},
                          !.endSubscriptions = @ \cup {k}]
    /\ sghost' = [sghost EXCEPT !.snapshot[k] = src.buffer]
    /\ UNCHANGED promise

\* the number of next() calls made so far
NumCalls ==
    Cardinality({c \in Consumers \X CallIds : promise[c[1]][c[2]].st # "none"})

\* BufferedAsyncStream.next(timeoutMillis?): call number i of consumer k
next(k, i, withTimeout) ==
    /\ stream[k].made
    /\ promise[k][i].st = "none"
    /\ \A j \in CallIds : j < i => promise[k][j].st # "none"
    /\ NumCalls < MaxCalls
    /\ IF Len(stream[k].buffer) > 0
       THEN /\ stream' = [stream EXCEPT ![k].buffer = Tail(@)]
            /\ promise' = [promise EXCEPT ![k][i] =
                              [st |-> "resolved", timer |-> FALSE]]
            /\ sghost' = [sghost EXCEPT !.delivered[k] =
                              Append(@, Head(stream[k].buffer))]
       ELSE /\ stream' = [stream EXCEPT ![k].pending = Append(@, i)]
            /\ promise' = [promise EXCEPT ![k][i] =
                              [st |-> "pending", timer |-> withTimeout]]
            /\ UNCHANGED sghost
    /\ UNCHANGED src

PendingKeptAfterTimeout(pending, i) == pending

\* the setTimeout callback of next(timeoutMillis): what is left pending
PendingAfterTimeout(pending, i) ==
    IF \E idx \in 1..Len(pending) : pending[idx] = i
    THEN Splice(pending, CHOOSE idx \in 1..Len(pending) : pending[idx] = i)
    ELSE pending

TimeoutFires(k, i) ==
    /\ promise[k][i].timer
    /\ stream' = [stream EXCEPT ![k].pending = PendingAfterTimeout(@, i)]
    \* reject('timeout') settles the promise only if it is not settled yet
    /\ promise' = [promise EXCEPT ![k][i] =
                      [@ EXCEPT !.timer = FALSE,
                                !.st = IF @ = "pending" THEN "timeout" ELSE @]]
    /\ UNCHANGED <<src, sghost>>

\* BufferedAsyncStream.nextIfAvailable(), when it returns an item
nextIfAvailable(k) ==
    /\ stream[k].made
    /\ Len(stream[k].buffer) > 0
    /\ stream' = [stream EXCEPT ![k].buffer = Tail(@)]
    /\ sghost' = [sghost EXCEPT !.delivered[k] =
                      Append(@, Head(stream[k].buffer))]
    /\ UNCHANGED <<src, promise>>

\* BufferedAsyncStream.close()
close(k) ==
    /\ stream[k].made
    /\ ~stream[k].isClosed
    /\ src' = [src EXCEPT !.itemSubscriptions = @ \ {k},
                          !.endSubscriptions = @ \ {k}]
    /\ stream' = [stream EXCEPT ![k].isClosed = TRUE]
    /\ UNCHANGED <<promise, sghost>>

\* BufferedAsyncStream.atEnd()
atEnd(k) ==
    stream[k].isClosed \/ (stream[k].isAtEnd /\ Len(stream[k].buffer) = 0)

\* BufferedAsyncStream.countAvailableItems()
countAvailableItems(k) == Len(stream[k].buffer)

StreamNext ==
    \/ Ingest /\ UNCHANGED <<storeVars, peerVars, objVars, callVars, timeVars>>
    \/ End /\ UNCHANGED <<storeVars, peerVars, objVars, callVars, timeVars>>
    \/ \E k \in Consumers : NewBufferedAsyncStream(k) /\ UNCHANGED <<storeVars, peerVars, objVars, filterVars, callVars, timeVars>>
    \/ \E k \in Consumers, i \in CallIds, t \in BOOLEAN :
          next(k, i, t) /\ UNCHANGED <<storeVars, peerVars, objVars, filterVars, callVars, timeVars>>
    \/ \E k \in Consumers, i \in CallIds : TimeoutFires(k, i) /\ UNCHANGED <<storeVars, peerVars, objVars, filterVars, callVars, timeVars>>
    \/ \E k \in Consumers : nextIfAvailable(k) /\ UNCHANGED <<storeVars, peerVars, objVars, filterVars, callVars, timeVars>>
    \/ \E k \in Consumers : close(k) /\ UNCHANGED <<storeVars, peerVars, objVars, filterVars, callVars, timeVars>>

(***************************************************************************)
(*                               STORE                                     *)
(*                                                                         *)
(* Objects are content-addressed: the hash of an object determines its     *)
(* literal, so a hash is modelled by the content it names.  The hash of a  *)
(* user object is <<name>>; the hash of the CascadedInvalidateOp created   *)
(* for op o and invalidation inv is <<"casc", o, inv>>.                    *)
(***************************************************************************)

H(n) == <<n>>

\* a HashReference: the class name is the one the referrer declares
Ref(n, className) == [hash |-> H(n), className |-> className]

\* a field holding a nested HashedObject
FObj(name, h) ==
    [name |-> name, kind |-> "obj", items |-> <<[hash |-> h, className |-> ""]>>]

\* a field holding a HashedSet of nested HashedObjects, in literal order
FObjs(name, names) ==
    [name |-> name, kind |-> "obj",
     items |-> [i \in 1..Len(names) |-> [hash |-> H(names[i]), className |-> ""]]]

\* a field holding a HashReference, or a HashedSet of them in literal order
FRefs(name, refs) == [name |-> name, kind |-> "refs", items |-> refs]

MutableObject(id) == [cls |-> "MutableObject", fields |-> <<>>]

MutationOp(target, prevOps, causalOps) ==
    [cls    |-> "MutationOp",
     fields |-> << FObj("targetObject", H(target)),
                   FRefs("prevOps", [i \in 1..Len(prevOps) |-> Ref(prevOps[i], "MutationOp")]),
                   FObjs("causalOps", causalOps) >>]

InvalidateAfterOp(target, targetOp, terminalOps) ==
    [cls    |-> "InvalidateAfterOp",
     fields |-> << FObj("targetObject", H(target)),
                   FObj("targetOp", H(targetOp)),
                   FRefs("terminalOps", [i \in 1..Len(terminalOps) |-> Ref(terminalOps[i], "MutationOp")]) >>]

\* CascadedInvalidateOp.create(op, inv)
CascadedInvalidateOp(targetObject, op, inv) ==
    [cls    |-> "CascadedInvalidateOp",
     fields |-> << FObj("targetObject", targetObject),
                   FObj("targetOp", op),
                   FObj("reason", inv) >>]

\* the objects the application builds:
\*   m1, m2  two mutable objects
\*   c       an op on m1;  o1 an op on m1 caused by c;  t an op on m1 after o1
\*   o2      an op on m2 caused by c;  o3 an op on m2 after o2, caused by o1
\*   inv     invalidates everything after c;  invT everything after c but t
\*   x       an object referring to m1 under the wrong class, and to c
Names == {"m1", "m2", "c", "o1", "o2", "o3", "t", "inv", "invT", "x"}

\* and an op on m1 whose prevOps refer to m1 itself, declared as what it is
Unheaded == "p"

\* and an object that holds invT and, after it, the terminal op t of invT
Bundle == "y"

Built(n) ==
    CASE n = "m1"   -> MutableObject(1)
      [] n = "m2"   -> MutableObject(2)
      [] n = "c"    -> MutationOp("m1", <<>>, <<>>)
      [] n = "o1"   -> MutationOp("m1", <<"c">>, <<"c">>)
      [] n = "t"    -> MutationOp("m1", <<"o1">>, <<>>)
      [] n = "o2"   -> MutationOp("m2", <<>>, <<"c">>)
      [] n = "o3"   -> MutationOp("m2", <<"o2">>, <<"o1">>)
      [] n = "inv"  -> InvalidateAfterOp("m1", "c", <<>>)
      [] n = "invT" -> InvalidateAfterOp("m1", "c", <<"t">>)
      [] n = Unheaded ->
             [cls |-> "MutationOp",
              fields |-> << FObj("targetObject", H("m1")),
                            FRefs("prevOps", <<Ref("m1", "MutableObject")>>),
                            FObjs("causalOps", <<>>) >>]
      [] n = Bundle ->
             [cls |-> "Plain",
              fields |-> << FObj("first", H("invT")), FObj("second", H("t")) >>]
      [] n = "x"    -> [cls |-> "Plain",
                        fields |-> << FRefs("wrong", <<Ref("m1", "MutationOp")>>),
                                      FRefs("about", <<Ref("c", "MutationOp")>>) >>]

Field(obj, name) ==
    With(obj.fields, LAMBDA fields :
        IF \E i \in 1..Len(fields) : fields[i].name = name
        THEN fields[CHOOSE i \in 1..Len(fields) : fields[i].name = name].items
        ELSE <<>>)

\* the object a hash names
RECURSIVE ObjOf(_)
ObjOf(h) ==
    IF h[1] = "casc"
    THEN CascadedInvalidateOp(Field(ObjOf(h[2]), "targetObject")[1].hash, h[2], h[3])
    ELSE Built(h[1])

CascHash(op, inv) == <<"casc", op, inv>>

Hashes(refs) == {refs[i].hash : i \in 1..Len(refs)}

MutationOpClasses == {"MutationOp", "InvalidateAfterOp", "CascadedInvalidateOp"}
InvalidationClasses == {"InvalidateAfterOp", "CascadedInvalidateOp"}


\* the first occurrences of the elements of a sequence, in order (the
\* dependencies of a literal are kept in a map keyed by the hash of the
\* dependency record)
Dedup(seq) ==
    With(seq, LAMBDA s :
        With({i \in 1..Len(s) : \A j \in 1..(i - 1) : s[j] # s[i]}, LAMBDA keep :
            [k \in 1..Cardinality(keep) |->
                s[CHOOSE i \in keep : Cardinality({j \in keep : j < i}) = k - 1]]))

\* the dependencies of the literal of h, in literalization order
RECURSIVE literalDependencies(_)

\* literalizeField on one HashReference or one nested HashedObject
ItemDeps(fieldPath, kind, item) ==
    IF kind = "obj"
    THEN With(literalDependencies(item.hash), LAMBDA child :
             <<[path |-> fieldPath, hash |-> item.hash,
                className |-> ObjOf(item.hash).cls,
                type |-> "literal", direct |-> TRUE]>>
             \o [i \in 1..Len(child) |->
                   [path |-> fieldPath \o "." \o child[i].path, hash |-> child[i].hash,
                    className |-> child[i].className, type |-> child[i].type,
                    direct |-> FALSE]])
    ELSE <<[path |-> fieldPath, hash |-> item.hash, className |-> item.className,
            type |-> "reference", direct |-> TRUE]>>

\* literalizeField on a field: a single value or a HashedSet of values
RECURSIVE FieldDeps(_, _, _)
FieldDeps(fieldPath, kind, items) ==
    IF items = <<>> THEN <<>>
    ELSE ItemDeps(fieldPath, kind, Head(items)) \o FieldDeps(fieldPath, kind, Tail(items))

RECURSIVE AllFieldDeps(_)
AllFieldDeps(fields) ==
    IF fields = <<>> THEN <<>>
    ELSE FieldDeps(Head(fields).name, Head(fields).kind, Head(fields).items)
         \o AllFieldDeps(Tail(fields))

literalDependencies(h) == Dedup(AllFieldDeps(ObjOf(h).fields))

\* every hash that can come up: the objects the application builds and the
\* CascadedInvalidateOps the store can create over them
RECURSIVE WithCascades(_)
WithCascades(hashes) ==
    With(hashes, LAMBDA S :
        With(S \cup {CascHash(pair[1], pair[2]) : pair \in
                        {q \in S \X S :
                            /\ ObjOf(q[1]).cls \in MutationOpClasses
                            /\ ObjOf(q[2]).cls \in InvalidationClasses
                            /\ Hashes(Field(ObjOf(q[2]), "targetOp"))
                                  \subseteq Hashes(Field(ObjOf(q[1]), "causalOps"))}},
             LAMBDA more : IF more = S THEN S ELSE WithCascades(more)))

AllHashes == WithCascades({H(n) : n \in Names \cup {Unheaded, Bundle}})

\* each object with its literal, computed once
Objects ==
    [h \in AllHashes |->
        With(<<ObjOf(h), literalDependencies(h)>>, LAMBDA o :
            [cls          |-> o[1].cls,
             targetObject |-> Field(o[1], "targetObject"),
             targetOp     |-> Field(o[1], "targetOp"),
             prevOps      |-> Hashes(Field(o[1], "prevOps")),
             causalOps    |-> Field(o[1], "causalOps"),
             terminalOps  |-> Hashes(Field(o[1], "terminalOps")),
             dependencies |-> o[2],
             context      |-> {h} \cup {d.hash : d \in {x \in Range(o[2]) :
                                                            x.type = "literal"}}])]

getClassName(h) == Objects[h].cls
IsMutationOp(h) == getClassName(h) \in MutationOpClasses
IsMutableObject(h) == getClassName(h) = "MutableObject"
getTargetObject(h) == Objects[h].targetObject[1].hash
getTargetOp(h) == Objects[h].targetOp[1].hash
getPrevOps(h) == Objects[h].prevOps
getCausalOps(h) == Hashes(Objects[h].causalOps)
getTerminalOps(h) == Objects[h].terminalOps

\* literal.dependencies
Dependencies(h) == Objects[h].dependencies

\* object.toContext(): the object and every object nested in it
toContext(h) == Objects[h].context

(***************************************************************************)
(* The backend (its code is not part of the sources at hand): a map from   *)
(* the stored hashes to the stored literal and op header.  n counts the    *)
(* store() calls made for the hash.                                        *)
(***************************************************************************)
NoHeader == [defined |-> FALSE, prevOpHeaders |-> {}]

Stored(b) == DOMAIN b

\* backend.searchByReference(path, hash): the stored literals that have a
\* dependency at that path on that hash
searchByReference(b, path, hash) ==
    {h \in Stored(b) :
        \E dep \in Range(Dependencies(h)) : dep.path = path /\ dep.hash = hash}

loadAllInvalidations(b, targetOp) ==
    {h \in searchByReference(b, "targetOp", targetOp) :
        getClassName(h) \in {"InvalidateAfterOp", "CascadedInvalidateOp"}}

loadAllConsequences(b, op) ==
    {h \in searchByReference(b, "causalOps", op) : IsMutationOp(h)}

\* loadClosure(init, extractPrevOps); loading a hash that is not stored
\* yields undefined, whose prevOps cannot be read
RECURSIVE loadClosure(_, _)
loadClosure(b, sets) ==
    With(sets, LAMBDA s :
        IF s.pending = {} THEN [closure |-> s.closure, failed |-> FALSE]
        ELSE With(CHOOSE v \in s.pending : TRUE, LAMBDA value :
                 IF value \notin Stored(b)
                 THEN [closure |-> s.closure \cup {value}, failed |-> TRUE]
                 ELSE loadClosure(b,
                          [pending |-> (s.pending \ {value})
                                          \cup (getPrevOps(value)
                                                    \ (s.closure \cup {value})),
                           closure |-> s.closure \cup {value}])))

loadPrevOpsClosure(b, init) == loadClosure(b, [pending |-> init, closure |-> {}])

\* some order of a set, for the loops over search results
RECURSIVE SeqOf(_)
SeqOf(set) ==
    With(set, LAMBDA S :
        IF S = {} THEN <<>>
        ELSE With(CHOOSE v \in S : TRUE, LAMBDA e : <<e>> \o SeqOf(S \ {e})))

(***************************************************************************)
(* The callback tables: each a sequence of [key, callbacks] in the order   *)
(* the keys were first watched, the callbacks in the order they were added.*)
(***************************************************************************)
Callbacks == {"cb1"}
WatchedClasses == {"CascadedInvalidateOp"}
WatchedReferences == {[path |-> "causalOps", hash |-> H("c")]}
WatchedClassReferences ==
    {[className |-> "InvalidateAfterOp", path |-> "targetOp", hash |-> H("c")]}

\* MultiMap.add(key, value)
MultiMapAdd(table, key, value) ==
    IF \E i \in 1..Len(table) : table[i].key = key
    THEN [i \in 1..Len(table) |->
            IF table[i].key = key /\ value \notin Range(table[i].callbacks)
            THEN [table[i] EXCEPT !.callbacks = Append(@, value)]
            ELSE table[i]]
    ELSE Append(table, [key |-> key, callbacks |-> <<value>>])

\* the callbacks of one key, fired once per element of matches
RECURSIVE FireTimes(_, _, _)
FireTimes(callbacks, n, hash) ==
    IF n = 0 THEN <<>>
    ELSE [i \in 1..Len(callbacks) |-> <<callbacks[i], hash>>]
         \o FireTimes(callbacks, n - 1, hash)

\* one table: counts[i] is the number of matches found for the i-th key
RECURSIVE FireTable(_, _, _)
FireTable(table, counts, hash) ==
    IF table = <<>> THEN <<>>
    ELSE FireTimes(Head(table).callbacks, Head(counts), hash)
         \o FireTable(Tail(table), Tail(counts), hash)

\* fireCallbacks(literal): the calls made, in order
fireCallbacks(w, hash) ==
    LET deps == Dependencies(hash)
        classMatches(key) == IF getClassName(hash) = key THEN 1 ELSE 0
        refMatches(key) ==
            Cardinality({i \in 1..Len(deps) :
                            deps[i].path = key.path /\ deps[i].hash = key.hash})
        classRefMatches(key) ==
            IF key.className = getClassName(hash)
            THEN Cardinality({i \in 1..Len(deps) :
                                deps[i].path = key.path /\ deps[i].hash = deps[i].hash})
            ELSE 0
        Counts(table, Matches(_)) == [i \in 1..Len(table) |-> Matches(table[i].key)]
    IN  FireTable(w.classCallbacks, Counts(w.classCallbacks, classMatches), hash)
        \o FireTable(w.referencesCallbacks,
                      Counts(w.referencesCallbacks, refMatches), hash)
        \o FireTable(w.classReferencesCallbacks,
                      Counts(w.classReferencesCallbacks, classRefMatches), hash)

(***************************************************************************)
(* save().  The state a save() call works on is threaded through its       *)
(* steps as a record: the backend, the save context, the queues of the     *)
(* mutable objects, the hashes handed to backend.store(), the callbacks    *)
(* fired, and the error thrown, if any.                                    *)
(***************************************************************************)
NoError == "none"

\* await this.load(hash, false) !== undefined
LoadedUnlessMutable(b, hash) == hash \in Stored(b) /\ ~IsMutableObject(hash)
Loaded(b, hash) == hash \in Stored(b)

\* missing.size > 0
NoneMissing(missing) == FALSE
SomeMissing(missing) == missing # {}

\* the consequences that are not valid consequences
NoConsequences(consequences, validConsequences) == {}
InvalidConsequences(consequences, validConsequences) ==
    consequences \ validConsequences

\* findMissingReferencesWithContext: the missing hashes, and whether the
\* class-mismatch error is thrown on the way
RECURSIVE findMissingReferencesWithContext(_, _, _, _)
findMissingReferencesWithContext(hash, context, b, expectedClassName) ==
    IF hash \notin context
    THEN [missing |-> {hash}, mismatch |-> FALSE]
    ELSE IF expectedClassName # "" /\ getClassName(hash) # expectedClassName
    THEN [missing |-> {}, mismatch |-> TRUE]
    ELSE LET One(dependency) ==
                 IF dependency.hash \notin context
                 THEN IF ~Loaded(b, dependency.hash)
                      THEN [missing |-> {dependency.hash}, mismatch |-> FALSE]
                      ELSE [missing |-> {},
                            mismatch |-> getClassName(dependency.hash)
                                            # dependency.className]
                 ELSE findMissingReferencesWithContext(
                          dependency.hash, context, b, dependency.className)
         IN  With({One(dependency) : dependency \in Range(Dependencies(hash))},
                  LAMBDA found :
                      [missing  |-> UNION {f.missing : f \in found},
                       mismatch |-> \E f \in found : f.mismatch])

\* backend.store(literal, history), which fires the stored-object callback
backendStore(st, hash, history) ==
    LET b == st.backend
        n == IF hash \in Stored(b) THEN b[hash].n ELSE 0
    IN  [st EXCEPT
            !.backend = [h \in Stored(b) \cup {hash} |->
                            IF h = hash THEN [n |-> n + 1, header |-> history]
                            ELSE b[h]],
            !.stored = Append(@, hash),
            !.fired = @ \o fireCallbacks(watches, hash)]

\* new OpHeader(object, prevOpHeaders); undefined if a header is missing
OpHeader(b, hash) ==
    IF \E p \in getPrevOps(hash) : p \notin Stored(b) \/ ~b[p].header.defined
    THEN NoHeader
    ELSE [defined |-> TRUE, prevOpHeaders |-> getPrevOps(hash)]

RECURSIVE saveWithContext(_, _)
RECURSIVE saveLiteralDependencies(_, _)
RECURSIVE cascadeInvalidations(_, _, _)
RECURSIVE cascadeCausalOps(_, _, _)
RECURSIVE cascadeConsequences(_, _, _)

\* casc = CascadedInvalidateOp.create(op, inv); casc.toContext(context);
\* saveWithContext(casc.getLastHash(), context)
saveCascade(op, inv, st) ==
    saveWithContext(CascHash(op, inv),
        [st EXCEPT !.context = @ \cup toContext(CascHash(op, inv))])

\* Store.ts 226-232
saveLiteralDependencies(deps, state) ==
    With(state, LAMBDA st :
        IF deps = <<>> \/ st.err # NoError THEN st
        ELSE saveLiteralDependencies(Tail(deps),
                 IF Head(deps).type = "literal"
                 THEN saveWithContext(Head(deps).hash, st)
                 ELSE st))

\* a store of the literal with whatever header comes out
storeWithAnyHeader(hash, state) ==
    With(state, LAMBDA st :
        IF st.err # NoError THEN st
        ELSE IF ~IsMutationOp(hash) THEN backendStore(st, hash, NoHeader)
        ELSE backendStore(st, hash, OpHeader(st.backend, hash)))

\* Store.ts 234-260
storeWithHeader(hash, state) ==
    With(state, LAMBDA st :
        IF st.err # NoError THEN st
        ELSE IF ~IsMutationOp(hash) THEN backendStore(st, hash, NoHeader)
        ELSE With(OpHeader(st.backend, hash), LAMBDA history :
                 IF ~history.defined
                 THEN [st EXCEPT !.err = "missingPrevOpHeader"]
                 ELSE backendStore(st, hash, history)))

\* Store.ts 279-281: shouldInv || shouldCasc
shouldCascade(object, inv) ==
    LET shouldInv ==
            /\ getClassName(inv) = "InvalidateAfterOp"
            /\ getTargetObject(inv) = getTargetObject(object)
        shouldCasc == getClassName(inv) = "CascadedInvalidateOp"
    IN  shouldInv \/ shouldCasc

\* Store.ts 273-289: the invalidations found for one causal op
cascadeInvalidations(object, invalidations, state) ==
    With(state, LAMBDA st :
        IF invalidations = <<>> \/ st.err # NoError THEN st
        ELSE LET inv == Head(invalidations)
             IN  cascadeInvalidations(object, Tail(invalidations),
                     IF shouldCascade(object, inv)
                     THEN saveCascade(object, inv, st)
                     ELSE st))

\* Store.ts 262-294: direction A
cascadeCausalOps(object, causalOps, state) ==
    With(state, LAMBDA st :
        IF causalOps = <<>> \/ st.err # NoError THEN st
        ELSE cascadeCausalOps(object, Tail(causalOps),
                 With(SeqOf(loadAllInvalidations(st.backend, Head(causalOps).hash)),
                      LAMBDA invalidations :
                          cascadeInvalidations(object, invalidations, st))))

\* Store.ts 314-322 and 326-330
cascadeConsequences(object, consequences, state) ==
    With(state, LAMBDA st :
        IF consequences = <<>> \/ st.err # NoError THEN st
        ELSE cascadeConsequences(object, Tail(consequences),
                 saveCascade(Head(consequences), object, st)))

\* Store.ts 296-334: direction B
invalidateConsequences(object, state) ==
    With(state, LAMBDA st :
        IF st.err # NoError THEN st
        ELSE IF getClassName(object) = "InvalidateAfterOp"
        THEN With(loadPrevOpsClosure(st.backend, getTerminalOps(object)),
                  LAMBDA validConsequences :
                      IF validConsequences.failed
                      THEN [st EXCEPT !.err = "TypeError"]
                      ELSE With(SeqOf(InvalidConsequences(
                                          loadAllConsequences(st.backend,
                                                              getTargetOp(object)),
                                          validConsequences.closure)),
                                LAMBDA consequences :
                                    cascadeConsequences(object, consequences, st)))
        ELSE IF getClassName(object) = "CascadedInvalidateOp"
        THEN With(SeqOf(loadAllConsequences(st.backend, getTargetOp(object))),
                  LAMBDA consequences : cascadeConsequences(object, consequences, st))
        ELSE st)

saveWithContext(hash, state) ==
    With(state, LAMBDA st :
        IF st.err # NoError THEN st
        ELSE IF hash \notin st.context THEN [st EXCEPT !.err = "missingFromContext"]
        ELSE IF Loaded(st.backend, hash) THEN st
        ELSE invalidateConsequences(hash,
                 With(storeWithHeader(hash,
                          saveLiteralDependencies(Dependencies(hash), st)),
                      LAMBDA st2 :
                          IF IsMutationOp(hash)
                          THEN cascadeCausalOps(hash, Objects[hash].causalOps, st2)
                          ELSE st2)))

\* Store.ts 85-96: the part of save() that precedes the flush of mutations
saveObject(hash, state) ==
    With(state, LAMBDA st :
        IF st.err # NoError THEN st
        ELSE With(findMissingReferencesWithContext(hash, toContext(hash), st.backend, ""),
                  LAMBDA found :
                      IF found.mismatch THEN [st EXCEPT !.err = "classMismatch"]
                      ELSE IF SomeMissing(found.missing)
                      THEN [st EXCEPT !.err = "missingReferences"]
                      ELSE saveWithContext(hash, [st EXCEPT !.context = toContext(hash)])))

\* MutableObject.saveQueuedOps() (its code is not part of the sources at
\* hand): the queued ops are saved through the store, in order; an op that
\* cannot be saved stays queued with the ones behind it
RECURSIVE saveQueuedOps(_, _)
saveQueuedOps(mutable, state) ==
    With(state, LAMBDA st :
        IF st.err # NoError \/ st.unsaved[mutable] = <<>> THEN st
        ELSE With(saveObject(Head(st.unsaved[mutable]), st), LAMBDA st1 :
                 IF st1.err # NoError THEN st1
                 ELSE saveQueuedOps(mutable,
                          [st1 EXCEPT !.unsaved[mutable] = Tail(@)])))

\* Store.ts 116-141: the mutable objects whose queued ops save() flushes
MutablesToFlush(hash) ==
    (IF IsMutableObject(hash) THEN <<hash>> ELSE <<>>)
    \o [i \in 1..Len(SelectSeq(Dependencies(hash),
                LAMBDA d : d.type = "literal" /\ IsMutableObject(d.hash))) |->
           SelectSeq(Dependencies(hash),
               LAMBDA d : d.type = "literal" /\ IsMutableObject(d.hash))[i].hash]

RECURSIVE flushAll(_, _)
flushAll(mutables, state) ==
    With(state, LAMBDA st :
        IF mutables = <<>> THEN st
        ELSE flushAll(Tail(mutables), saveQueuedOps(Head(mutables), st)))

\* Store.save(object, saveMutations)
saveResult(hash, saveMutations) ==
    With(saveObject(hash, [backend |-> backend, context |-> {}, unsaved |-> unsaved,
                           stored |-> <<>>, fired |-> <<>>, err |-> NoError]),
         LAMBDA st1 :
             IF saveMutations THEN flushAll(MutablesToFlush(hash), st1) ELSE st1)

\* the op closure of a set of ops under prevOps, whatever is stored
RECURSIVE PrevOpsClosure(_)
PrevOpsClosure(ops) ==
    With(ops \cup UNION {getPrevOps(o) : o \in ops}, LAMBDA more :
        IF more = ops THEN ops ELSE PrevOpsClosure(more))

\* the hashes among the dependencies of the literal of hash that are neither
\* in the context of its save nor in the backend
MissingDependencies(hash) ==
    {dep.hash : dep \in Range(Dependencies(hash))}
        \ (toContext(hash) \cup Stored(backend))

\* the hashes among the dependencies of the literal of hash that are at hand,
\* in the context or in the backend, under another class than the declared one
MismatchedDependencies(hash) ==
    {dep.hash : dep \in {d \in Range(Dependencies(hash)) :
                            /\ d.hash \in toContext(hash) \cup Stored(backend)
                            /\ getClassName(d.hash) # d.className}}

\* the ops queued on the mutable objects that a save of hash flushes
RECURSIVE Queued(_)
Queued(mutables) ==
    IF mutables = <<>> THEN <<>>
    ELSE unsaved[Head(mutables)] \o Queued(Tail(mutables))

QueuedFor(hash) == Queued(MutablesToFlush(hash))

\* the pairs <<o, inv>> of an op o stored before this save and an
\* InvalidateAfterOp inv stored by it, inv invalidating a causal op of o
\* and o not among the ops inv leaves valid
NewlyDue(before, after) ==
    {pair \in Stored(before) \X (Stored(after) \ Stored(before)) :
        /\ getClassName(pair[1]) = "MutationOp"
        /\ getClassName(pair[2]) = "InvalidateAfterOp"
        /\ getTargetOp(pair[2]) \in getCausalOps(pair[1])
        /\ pair[1] \notin PrevOpsClosure(getTerminalOps(pair[2]))}

Save(hash, saveMutations) ==
    \E st \in {saveResult(hash, saveMutations)} :
        /\ backend' = st.backend
        /\ unsaved' = st.unsaved
        /\ last' = [wasStored |-> hash \in Stored(backend),
                    wasDue |-> \E pair \in due : hash \in {pair[1], pair[2]},
                    missing |-> MissingDependencies(hash),
                    mismatch |-> MismatchedDependencies(hash) # {},
                    flushed |-> saveMutations /\ QueuedFor(hash) # <<>>,
                    err |-> st.err, stored |-> st.stored, fired |-> st.fired]
        /\ due' = due \cup NewlyDue(backend, st.backend)
        /\ UNCHANGED watches

\* the ops the application applies to a mutable object through its queue
AppliedOps == {H("c"), H("o2")}
OpsOn(mutable) == {op \in AppliedOps : getTargetObject(op) = mutable}

NumQueued == Len(unsaved[H("m1")]) + Len(unsaved[H("m2")])

\* MutableObject.applyNewOp(op) (not part of the sources at hand): the op
\* is queued until the next save
applyNewOp(mutable, op) ==
    /\ NumQueued < MaxQueued
    /\ op \in OpsOn(mutable)
    /\ op \notin Stored(backend)
    /\ op \notin Range(unsaved[mutable])
    /\ getPrevOps(op) \subseteq Stored(backend) \cup Range(unsaved[mutable])
    /\ unsaved' = [unsaved EXCEPT ![mutable] = Append(@, op)]
    /\ UNCHANGED <<backend, watches, last, due>>

NumWatches ==
    LET Count(table) == Cardinality({<<i, j>> \in (1..Len(table)) \X (1..Cardinality(Callbacks)) :
                                        j <= Len(table[i].callbacks)})
    IN  Count(watches.classCallbacks) + Count(watches.referencesCallbacks)
        + Count(watches.classReferencesCallbacks)

watchClass(className, callback) ==
    /\ NumWatches < MaxWatches
    /\ watches' = [watches EXCEPT
                      !.classCallbacks = MultiMapAdd(@, className, callback)]
    /\ watches' # watches
    /\ UNCHANGED <<backend, unsaved, last, due>>

watchReferences(reference, callback) ==
    /\ NumWatches < MaxWatches
    /\ watches' = [watches EXCEPT
                      !.referencesCallbacks = MultiMapAdd(@, reference, callback)]
    /\ watches' # watches
    /\ UNCHANGED <<backend, unsaved, last, due>>

watchClassReferences(classReference, callback) ==
    /\ NumWatches < MaxWatches
    /\ watches' = [watches EXCEPT
                      !.classReferencesCallbacks = MultiMapAdd(@, classReference, callback)]
    /\ watches' # watches
    /\ UNCHANGED <<backend, unsaved, last, due>>

NoSave == [wasStored |-> FALSE, wasDue |-> FALSE, missing |-> {},
           mismatch |-> FALSE, flushed |-> FALSE, err |-> NoError,
           stored |-> <<>>, fired |-> <<>>]

StoreInit ==
    /\ backend = <<>>
    /\ unsaved = [m \in {H("m1"), H("m2")} |-> <<>>]
    /\ watches = [classCallbacks |-> <<>>, referencesCallbacks |-> <<>>,
                  classReferencesCallbacks |-> <<>>]
    /\ last = NoSave
    /\ due = {}

StoreNext ==
    \/ \E n \in Names, saveMutations \in BOOLEAN :
          Save(H(n), saveMutations) /\ UNCHANGED <<streamVars, peerVars, objVars, filterVars, callVars, timeVars>>
    \/ \E m \in {H("m1"), H("m2")}, op \in AppliedOps :
          applyNewOp(m, op) /\ UNCHANGED <<streamVars, peerVars, objVars, filterVars, callVars, timeVars>>
    \/ \E className \in WatchedClasses, cb \in Callbacks :
          watchClass(className, cb) /\ UNCHANGED <<streamVars, peerVars, objVars, filterVars, callVars, timeVars>>
    \/ \E reference \in WatchedReferences, cb \in Callbacks :
          watchReferences(reference, cb) /\ UNCHANGED <<streamVars, peerVars, objVars, filterVars, callVars, timeVars>>
    \/ \E classReference \in WatchedClassReferences, cb \in Callbacks :
          watchClassReferences(classReference, cb) /\ UNCHANGED <<streamVars, peerVars, objVars, filterVars, callVars, timeVars>>


(***************************************************************************)
(*                          PEER GROUP AGENT                               *)
(*                                                                         *)
(* One PeerGroupAgent per endpoint, all of the same peer group.  The       *)
(* NetworkAgent, the SecureNetworkAgent and the PeerSource are not part of *)
(* the sources at hand: the transport is a table of connections, and the   *)
(* events it raises wait in an inbox until they are delivered.             *)
(*                                                                         *)
(* Time is abstract: a timestamp is "new" when it is taken and "old" once  *)
(* more than every configured interval has elapsed since.                  *)
(* onlineQueryTimestamps keeps the recent entries only: the agent reads an *)
(* entry that is no longer recent as it reads a missing one.               *)
(***************************************************************************)
\* params.minPeers and params.maxPeers of the agents
minPeers == 1
maxPeers == 1

Undefined == "undefined"

Endpoints == {"a", "b", "c"}

\* the connection ids the transport hands out; ids are strings, compared
\* lexicographically
ConnIds == {"c1", "c2"}

\* every id the transport has for a connection, and the ids in sort() order
AllConnIds == {"c1", "c2", "c3"}
ConnOrder == <<"c1", "c2", "c3">>

\* a connection of the transport: its state and the two endpoints it joins
NoConnection == [state |-> "none", ends |-> {}]

\* every endpoint runs one instance
InstanceOf(ep) == "i-" \o ep

Statuses == {"Connecting", "ReceivingConnection", "WaitingForOffer",
             "OfferSent", "OfferAccepted", "Ready"}

\* Map.has / Map.set / Map.delete / Map.get
MapHas(map, key) == key \in DOMAIN map
MapSet(map, key, value) ==
    [k \in DOMAIN map \cup {key} |-> IF k = key THEN value ELSE map[k]]
MapDelete(map, key) == [k \in DOMAIN map \ {key} |-> map[k]]
MapGet(map, key) == IF key \in DOMAIN map THEN map[key] ELSE Undefined

\* position of a connection id in the lexicographic order
Rank(connId) == CHOOSE i \in 1..Len(ConnOrder) : ConnOrder[i] = connId

\* Array.prototype.sort on connection ids: ascending, lexicographic
RECURSIVE SortIds(_)
SortIds(ids) ==
    IF ids = {} THEN <<>>
    ELSE LET least == CHOOSE x \in ids : \A y \in ids : Rank(x) <= Rank(y)
         IN <<least>> \o SortIds(ids \ {least})

\* Array.prototype.unshift
Unshift(s, x) == <<x>> \o s

\* Array.prototype.indexOf (1-based, 0 when absent)
IndexOf(s, x) ==
    IF \E i \in 1..Len(s) : s[i] = x
    THEN CHOOSE i \in 1..Len(s) : s[i] = x /\ \A j \in 1..(i - 1) : s[j] # x
    ELSE 0

\* the agent as its constructor leaves it
NewPeerGroupAgent ==
    [connections |-> <<>>,
     connectionsPerEndpoint |-> <<>>,
     instanceIdPerEndpoint |-> <<>>,
     connectionAttemptTimestamps |-> <<>>,
     onlineQueryTimestamps |-> <<>>,
     peerDiscoveryTimestamp |-> Undefined,
     chosenForDeduplication |-> <<>>,
     started |-> FALSE,
     tickLock |-> "free",
     ticking |-> 0,
     tickThrew |-> FALSE,
     announced |-> {},
     tickTimerRef |-> Undefined,
     initPending |-> <<>>,
     shutdownReturned |-> FALSE]

\* the state a handler works on: the agent, and the calls it has made on
\* the other agents of its pod and the events it has broadcast, in order
\* (dialed: the connection that connect() has just created, with the endpoint
\* it goes to; authenticated:
\* the connections whose authentication is the event being handled)
Handling(agent) ==
    [ag |-> agent, out |-> <<>>, dialed |-> <<>>, authenticated |-> {},
     thrown |-> FALSE]

Call(type, connId, arg) == [type |-> type, connId |-> connId, arg |-> arg]

Emit(st, call) == [st EXCEPT !.out = Append(@, call)]

(***************************************************************************)
(* What the agent asks of its environment.                                 *)
(***************************************************************************)
OtherEnd(connId, self) == CHOOSE ep \in net[connId].ends : ep # self

\* NetworkAgent.checkConnection
checkConnection(connId) == net[connId].state = "open"

\* ConnectionInfo.remoteInstanceId: the instance the remote end connected as,
\* where it said so, and else the one instance its endpoint runs
RemoteInstanceId(connId, ep) ==
    IF "instance" \in DOMAIN net[connId] THEN net[connId].instance
    ELSE InstanceOf(ep)

\* NetworkAgent.getConnectionInfo
getConnectionInfo(st, self, connId) ==
    IF MapHas(st.dialed, connId)
    THEN [defined |-> TRUE,
          remoteEndpoint |-> st.dialed[connId],
          remoteInstanceId |-> InstanceOf(st.dialed[connId])]
    ELSE IF net[connId].state \in {"requested", "open"} /\ self \in net[connId].ends
    THEN [defined |-> TRUE,
          remoteEndpoint |-> OtherEnd(connId, self),
          remoteInstanceId |-> RemoteInstanceId(connId, OtherEnd(connId, self))]
    ELSE [defined |-> FALSE]

\* PeerSource.getPeerForEndpoint: the PeerInfo is named by its endpoint
getPeerForEndpoint(self, ep) ==
    IF ep \in Range(peerSource[self]) THEN ep ELSE Undefined

\* SecureNetworkAgent.getLocalVerifiedIdentity / getRemoteVerifiedIdentity
checkSecuredConnection(st, self, connId) ==
    <<self, connId>> \in secured \/ connId \in st.authenticated

(***************************************************************************)
(* Connection metadata.                                                    *)
(***************************************************************************)
checkConnectionRemoteInstance(st, self, connId) ==
    LET connInfo == getConnectionInfo(st, self, connId)
    IN  /\ connInfo.defined
        /\ LET chosenInstanceId ==
                   MapGet(st.ag.instanceIdPerEndpoint, connInfo.remoteEndpoint)
           IN  \/ chosenInstanceId = Undefined
               \/ chosenInstanceId = connInfo.remoteInstanceId

\* what attemptToSetRemoteInstance returns, and the pins it leaves
attemptToSetRemoteInstance(st, self, connId) ==
    LET connInfo == getConnectionInfo(st, self, connId)
        pins == st.ag.instanceIdPerEndpoint
    IN  IF ~connInfo.defined THEN [result |-> FALSE, pins |-> pins]
        ELSE IF connInfo.remoteInstanceId = Undefined
             THEN [result |-> TRUE, pins |-> pins]
        ELSE IF ~MapHas(pins, connInfo.remoteEndpoint)
             THEN [result |-> TRUE,
                   pins |-> MapSet(pins, connInfo.remoteEndpoint,
                                   connInfo.remoteInstanceId)]
        ELSE [result |-> pins[connInfo.remoteEndpoint] = connInfo.remoteInstanceId,
              pins |-> pins]

addPeerConnection(st, self, connId, peer, status) ==
    IF MapHas(st.ag.connections, connId) THEN st
    ELSE LET set == attemptToSetRemoteInstance(st, self, connId)
             all == st.ag.connectionsPerEndpoint
             conns == IF MapHas(all, peer) THEN all[peer] ELSE <<>>
         IN  IF ~set.result THEN [st EXCEPT !.thrown = TRUE]
             ELSE [st EXCEPT
                      !.ag.instanceIdPerEndpoint = set.pins,
                      !.ag.connections =
                          MapSet(@, connId, [connId |-> connId, peer |-> peer,
                                             status |-> status,
                                             timestamp |-> "new"]),
                      !.ag.connectionsPerEndpoint =
                          MapSet(@, peer,
                                 Unshift(conns, connId))]

\* removePeerConnection that leaves the emptied list of the endpoint
removePeerConnectionLeavingList(st, connId) ==
    IF ~MapHas(st.ag.connections, connId) THEN st
    ELSE LET pc == st.ag.connections[connId]
             all == st.ag.connectionsPerEndpoint
             known == MapHas(all, pc.peer)
             idx == IF known THEN IndexOf(all[pc.peer], connId) ELSE 0
             conns == IF ~known THEN <<>>
                      ELSE IF idx > 0 THEN Splice(all[pc.peer], idx)
                      ELSE all[pc.peer]
             lost == pc.status = "Ready" /\ conns = <<>>
         IN  [st EXCEPT
                 !.ag.connections = MapDelete(@, connId),
                 !.ag.connectionsPerEndpoint =
                     IF ~known THEN @ ELSE MapSet(@, pc.peer, conns),
                 !.ag.instanceIdPerEndpoint =
                     IF lost THEN MapDelete(@, pc.peer) ELSE @,
                 !.out = IF lost THEN Append(@, Call("LostPeer", connId, pc.peer))
                         ELSE @]

\* removePeerConnection that drops the pin with any Ready connection
removePeerConnectionUnpinning(st, connId) ==
    IF ~MapHas(st.ag.connections, connId) THEN st
    ELSE LET pc == st.ag.connections[connId]
             all == st.ag.connectionsPerEndpoint
             known == MapHas(all, pc.peer)
             idx == IF known THEN IndexOf(all[pc.peer], connId) ELSE 0
             conns == IF ~known THEN <<>>
                      ELSE IF idx > 0 THEN Splice(all[pc.peer], idx)
                      ELSE all[pc.peer]
             lost == pc.status = "Ready"
         IN  [st EXCEPT
                 !.ag.connections = MapDelete(@, connId),
                 !.ag.connectionsPerEndpoint =
                     IF ~known THEN @
                     ELSE IF conns = <<>> THEN MapDelete(@, pc.peer)
                     ELSE MapSet(@, pc.peer, conns),
                 !.ag.instanceIdPerEndpoint =
                     IF lost THEN MapDelete(@, pc.peer) ELSE @,
                 !.out = IF lost THEN Append(@, Call("LostPeer", connId, pc.peer))
                         ELSE @]

removePeerConnection(st, connId) ==
    IF ~MapHas(st.ag.connections, connId) THEN st
    ELSE LET pc == st.ag.connections[connId]
             all == st.ag.connectionsPerEndpoint
             known == MapHas(all, pc.peer)
             idx == IF known THEN IndexOf(all[pc.peer], connId) ELSE 0
             conns == IF ~known THEN <<>>
                      ELSE IF idx > 0 THEN Splice(all[pc.peer], idx)
                      ELSE all[pc.peer]
             lost == pc.status = "Ready" /\ conns = <<>>
         IN  [st EXCEPT
                 !.ag.connections = MapDelete(@, connId),
                 !.ag.connectionsPerEndpoint =
                     IF ~known THEN @
                     ELSE IF conns = <<>> THEN MapDelete(@, pc.peer)
                     ELSE MapSet(@, pc.peer, conns),
                 !.ag.instanceIdPerEndpoint =
                     IF lost THEN MapDelete(@, pc.peer) ELSE @,
                 !.out = IF lost THEN Append(@, Call("LostPeer", connId, pc.peer))
                         ELSE @]

findWorkingConnectionId(ag, ep) ==
    LET connIds == IF MapHas(ag.connectionsPerEndpoint, ep)
                   THEN ag.connectionsPerEndpoint[ep] ELSE <<>>
        Works(connId) == /\ MapHas(ag.connections, connId)
                         /\ ag.connections[connId].status = "Ready"
                         /\ checkConnection(connId)
    IN  IF \A i \in 1..Len(connIds) : ~Works(connIds[i])
        THEN Undefined
        ELSE connIds[CHOOSE i \in 1..Len(connIds) :
                        Works(connIds[i]) /\ \A j \in 1..(i - 1) : ~Works(connIds[j])]

\* shouldConnectToPeer that never holds
shouldNeverConnect(ag, self, p) == FALSE

shouldConnectToPeer(ag, self, p) ==
    /\ p # Undefined
    /\ Cardinality(DOMAIN ag.connectionsPerEndpoint) < minPeers
    /\ ~MapHas(ag.connectionsPerEndpoint, p)
    /\ self # p
    /\ MapGet(ag.connectionAttemptTimestamps, p) \in {Undefined, "old"}

\* shouldAcceptPeerConnection without its test on maxPeers
shouldAcceptOverMaxPeers(st, self, connId, p) ==
    /\ p # Undefined
    /\ findWorkingConnectionId(st.ag, p) = Undefined
    /\ self # p
    /\ checkConnectionRemoteInstance(st, self, connId)

shouldAcceptPeerConnection(st, self, connId, p) ==
    /\ p # Undefined
    /\ LET alreadyConnected == MapHas(st.ag.connectionsPerEndpoint, p)
                                /\ Len(st.ag.connectionsPerEndpoint[p]) > 0
       IN  Cardinality(DOMAIN st.ag.connectionsPerEndpoint)
               + (IF alreadyConnected THEN 0 ELSE 1) <= maxPeers
    /\ findWorkingConnectionId(st.ag, p) = Undefined
    /\ self # p
    /\ checkConnectionRemoteInstance(st, self, connId)

\* getPeers(): the peers of the Ready connections
getPeers(ag) ==
    {ag.connections[connId].peer :
        connId \in {c \in DOMAIN ag.connections : ag.connections[c].status = "Ready"}}

(***************************************************************************)
(* The periodic tick: cleanUp, queryForOnlinePeers, deduplicateConnections *)
(* and checkPeers, under the tick lock.                                    *)
(***************************************************************************)
release(connId) == Call("releaseConnection", connId, Undefined)

\* a clean-up that leaves the connections that are not Ready alone
cleanUpReadyConnection(st, connId) ==
    IF ~MapHas(st.ag.connections, connId) THEN st
    ELSE LET pc == st.ag.connections[connId]
         IN  IF pc.status = "Ready" /\ ~checkConnection(connId)
             THEN Emit(removePeerConnection(st, connId), release(connId))
             ELSE st

cleanUpConnection(st, connId) ==
    IF ~MapHas(st.ag.connections, connId) THEN st
    ELSE LET pc == st.ag.connections[connId]
         IN  IF \/ pc.status = "Ready" /\ ~checkConnection(connId)
                \/ pc.status # "Ready" /\ pc.timestamp = "old"
             THEN Emit(removePeerConnection(st, connId), release(connId))
             ELSE st

RECURSIVE cleanUpConnections(_, _)
cleanUpConnections(st, connIds) ==
    IF connIds = <<>> THEN st
    ELSE With(cleanUpConnection(st, Head(connIds)),
              LAMBDA s : cleanUpConnections(s, Tail(connIds)))

cleanUp(st) ==
    With(cleanUpConnections(st, ConnOrder),
         LAMBDA s : [s EXCEPT !.ag.connectionAttemptTimestamps =
                         [ep \in {e \in DOMAIN @ : @[e] # "old"} |-> @[ep]]])

\* the timer of queryForOnlinePeers; TRUE when the peer source is asked
queryIsDue(ag) ==
    ag.peerDiscoveryTimestamp \in {Undefined, "old"}

\* the loop of queryForOnlinePeers over the candidates
RECURSIVE pickEndpoints(_, _, _, _, _)
pickEndpoints(ag, self, candidates, endpoints, fallbackEndpoints) ==
    IF candidates = <<>>
    THEN [endpoints |-> endpoints, fallbackEndpoints |-> fallbackEndpoints]
    ELSE LET candidate == Head(candidates)
             wanted == minPeers - Cardinality(DOMAIN ag.connectionsPerEndpoint)
             fallback == IF Len(fallbackEndpoints) < wanted
                         THEN Append(fallbackEndpoints, candidate)
                         ELSE fallbackEndpoints
         IN  IF \/ self = candidate
                \/ MapHas(ag.connectionsPerEndpoint, candidate)
                \/ MapHas(ag.onlineQueryTimestamps, candidate)
             THEN pickEndpoints(ag, self, Tail(candidates), endpoints,
                                fallbackEndpoints)
             ELSE IF MapGet(ag.connectionAttemptTimestamps, candidate) = "new"
             THEN pickEndpoints(ag, self, Tail(candidates), endpoints, fallback)
             ELSE IF Len(endpoints) + 1 >= wanted
             THEN [endpoints |-> Append(endpoints, candidate),
                   fallbackEndpoints |-> fallback]
             ELSE pickEndpoints(ag, self, Tail(candidates),
                                Append(endpoints, candidate), fallback)

\* queryForOnlinePeers, from the answer of peerSource.getPeers on
queryCandidates(st, self, candidates) ==
    LET picked == pickEndpoints(st.ag, self, candidates, <<>>, <<>>)
        endpoints == IF Len(picked.endpoints) < minPeers
                     THEN picked.fallbackEndpoints ELSE picked.endpoints
        queried == [st EXCEPT !.ag.onlineQueryTimestamps =
                       [ep \in DOMAIN @ \cup Range(endpoints) |->
                           IF ep \in Range(endpoints) THEN "new" ELSE @[ep]]]
    IN  IF endpoints = <<>> THEN queried
        ELSE Emit(queried, Call("queryForListeningAddresses", Undefined, endpoints))

\* queryForOnlinePeers up to its await
queryStart(st) ==
    IF queryIsDue(st.ag) THEN [st EXCEPT !.ag.peerDiscoveryTimestamp = "new"]
    ELSE st

\* TRUE when queryForOnlinePeers goes on to ask the peer source
queryAsks(ag) ==
    queryIsDue(ag) /\ Cardinality(DOMAIN ag.connectionsPerEndpoint) < minPeers

\* the choice among the Ready connections: the last of the sorted ids
lastOfSorted(ready) == SortIds(ready)[Len(SortIds(ready))]

\* the choice among the Ready connections: ready.sort(); ready[0]
firstOfSorted(ready) == SortIds(ready)[1]

deduplicateEndpoint(st, endpoint) ==
    LET all == st.ag.connectionsPerEndpoint
    IN  IF ~MapHas(all, endpoint) THEN st
        ELSE IF Len(all[endpoint]) <= 1 THEN st
        ELSE LET was == MapGet(st.ag.chosenForDeduplication, endpoint)
                 stale == was # Undefined /\ ~checkConnection(was)
                 chosenConnId == IF stale THEN Undefined ELSE was
                 cleared == IF stale
                            THEN [st EXCEPT !.ag.chosenForDeduplication =
                                               MapDelete(@, endpoint)]
                            ELSE st
                 ready == {connId \in Range(all[endpoint]) :
                              /\ MapHas(st.ag.connections, connId)
                              /\ st.ag.connections[connId].status = "Ready"
                              /\ checkConnection(connId)}
             IN  IF chosenConnId = Undefined /\ Cardinality(ready) > 1
                 THEN Emit([cleared EXCEPT !.ag.chosenForDeduplication =
                               MapSet(@, endpoint, firstOfSorted(ready))],
                           Call("sendSecurely", firstOfSorted(ready),
                                "ChooseConnection"))
                 ELSE cleared

RECURSIVE deduplicateEndpoints(_, _)
deduplicateEndpoints(st, endpoints) ==
    IF endpoints = {} THEN st
    ELSE LET endpoint == CHOOSE ep \in endpoints : TRUE
         IN  With(deduplicateEndpoint(st, endpoint),
                  LAMBDA s : deduplicateEndpoints(s, endpoints \ {endpoint}))

deduplicateConnections(st) == deduplicateEndpoints(st, Endpoints)

\* a checkPeers that releases nothing
checkPeersEndpointKept(st, self, endpoint) == st

\* HashedObject.ts 1586-1596: one turn of the loop of checkPeers
checkPeersEndpoint(st, self, endpoint) ==
    IF /\ MapHas(st.ag.connectionsPerEndpoint, endpoint)
       /\ getPeerForEndpoint(self, endpoint) = Undefined
    THEN [st EXCEPT !.out = @ \o [i \in 1..Len(st.ag.connectionsPerEndpoint[endpoint])
                               |-> release(st.ag.connectionsPerEndpoint[endpoint][i])]]
    ELSE st

RECURSIVE checkPeersEndpoints(_, _, _)
checkPeersEndpoints(st, self, endpoints) ==
    IF endpoints = {} THEN st
    ELSE LET endpoint == CHOOSE ep \in endpoints : TRUE
         IN  With(checkPeersEndpoint(st, self, endpoint),
                  LAMBDA s : checkPeersEndpoints(s, self, endpoints \ {endpoint}))

checkPeers(st, self) == checkPeersEndpoints(st, self, Endpoints)

\* Lock.acquire(): taken if free, and whether it was
acquire(lock) == lock = "free"

\* the tick body is entered with the lock taken (ticking: the tick bodies
\* entered and not left, kept to state properties)
tickAcquired(st) ==
    [st EXCEPT !.ag.tickLock = "held", !.ag.ticking = @ + 1]

\* a tick body left with the lock still held
tickKeepsLock(st) == [st EXCEPT !.ag.ticking = @ - 1]

\* finally { this.tickLock.release(); }
tickFinally(st) ==
    [st EXCEPT !.ag.tickLock = "free", !.ag.ticking = @ - 1]

\* the tick from deduplicateConnections to the release of the lock
tickEnd(st, self) ==
    With(deduplicateConnections(st),
         LAMBDA s : With(checkPeers(s, self), LAMBDA t : tickFinally(t)))

\* the tick up to the await in queryForOnlinePeers, or to its end when the
\* peer source is not asked
tickStart(st, self) ==
    With(cleanUp(tickAcquired(st)),
         LAMBDA s : IF queryAsks(s.ag)
                    THEN queryStart(s)
                    ELSE With(queryStart(s), LAMBDA t : tickEnd(t, self)))

\* the tick, when its timer fires: skipped if the lock is held
tick(st, self) ==
    IF acquire(st.ag.tickLock) THEN tickStart(st, self) ELSE st

\* the tick when the peer source rejects: the rest of the body is left out
tickThrows(st) ==
    With(tickFinally(st), LAMBDA s : [s EXCEPT !.ag.tickThrew = TRUE])

\* the tick from the answer of the peer source on
tickResume(st, self, candidates) ==
    With(queryCandidates(st, self, candidates), LAMBDA s : tickEnd(s, self))

(***************************************************************************)
(* Deduplication: the agreement on one connection per endpoint.            *)
(***************************************************************************)
\* the loop of chooseConnection: a for-of over the array that
\* removePeerConnection splices meanwhile
RECURSIVE chooseConnectionFrom(_, _, _, _)
chooseConnectionFrom(st, endpoint, chosenConnId, i) ==
    LET allConnIds == IF MapHas(st.ag.connectionsPerEndpoint, endpoint)
                      THEN st.ag.connectionsPerEndpoint[endpoint] ELSE <<>>
    IN  IF i > Len(allConnIds) THEN st
        ELSE IF allConnIds[i] # chosenConnId
        THEN With(removePeerConnection(Emit(st, release(allConnIds[i])),
                                       allConnIds[i]),
                  LAMBDA s : chooseConnectionFrom(s, endpoint, chosenConnId, i + 1))
        ELSE chooseConnectionFrom(st, endpoint, chosenConnId, i + 1)

chooseConnection(st, chosenConnId) ==
    chooseConnectionFrom(st, st.ag.connections[chosenConnId].peer, chosenConnId, 1)

onConnectionSelection(st, connId, type) ==
    IF /\ MapHas(st.ag.connections, connId)
       /\ st.ag.connections[connId].status = "Ready"
       /\ checkConnection(connId)
    THEN LET chosenConnId == MapGet(st.ag.chosenForDeduplication,
                                    st.ag.connections[connId].peer)
             accept == \/ chosenConnId = Undefined
                       \/ chosenConnId = connId
                       \/ SortIds({connId, chosenConnId})[1] = connId
         IN  IF ~accept THEN st
             ELSE With(chooseConnection(st, connId),
                       LAMBDA s : IF type = "ChooseConnection"
                                  THEN Emit(s, Call("sendSecurely", connId,
                                                    "ConfirmChosenConnection"))
                                  ELSE s)
    ELSE st

(***************************************************************************)
(* Connection negotiation.                                                 *)
(***************************************************************************)
\* connId is the id that NetworkAgent.connect returns
onOnlineEndpointDiscovery(st, self, ep, connId) ==
    LET peer == getPeerForEndpoint(self, ep)
    IN  IF shouldConnectToPeer(st.ag, self, peer)
        THEN With(addPeerConnection(
                      [Emit(st, Call("connect", connId, peer))
                          EXCEPT !.dialed = MapSet(@, connId, peer)],
                      self, connId, peer, "Connecting"),
                  LAMBDA s : IF s.thrown THEN s
                             ELSE [s EXCEPT !.ag.connectionAttemptTimestamps =
                                               MapSet(@, ep, "new")])
        ELSE st

onConnectionRequest(st, self, connId, local, remote) ==
    IF self # local THEN st
    ELSE LET peer == getPeerForEndpoint(self, remote)
         IN  IF shouldAcceptPeerConnection(st, self, connId, peer)
             THEN Emit(addPeerConnection(st, self, connId, peer,
                                         "ReceivingConnection"),
                       Call("acceptConnection", connId, Undefined))
             ELSE st

sendOffer(st, connId) == Emit(st, Call("sendMessage", connId, "PeeringOffer"))

sendOfferReply(st, connId, accept) ==
    Emit(st, Call("sendMessage", connId,
                  IF accept THEN "PeeringOfferReply:accepted"
                  ELSE "PeeringOfferReply:rejected"))

SetStatus(st, connId, status) ==
    [st EXCEPT !.ag.connections[connId].status = status]

onConnectionEstablishment(st, self, connId, local, remote) ==
    IF /\ MapHas(st.ag.connections, connId)
       /\ self = local
       /\ st.ag.connections[connId].peer = remote
    THEN IF checkConnectionRemoteInstance(st, self, connId)
         THEN IF st.ag.connections[connId].status = "Connecting"
              THEN SetStatus(sendOffer(st, connId), connId, "OfferSent")
              ELSE IF st.ag.connections[connId].status = "ReceivingConnection"
              THEN SetStatus(st, connId, "WaitingForOffer")
              ELSE st
         ELSE Emit(removePeerConnection(st, connId), release(connId))
    ELSE st

\* the offer stands and the connection is made Ready whether or not its
\* channel is secured
offerAcceptedUnsecured(st, self, connId) ==
    Emit(SetStatus(st, connId, "Ready"),
         Call("NewPeer", connId, st.ag.connections[connId].peer))

\* the end of onReceivingOffer and onReceivingOfferReply: the offer stands
offerAccepted(st, self, connId) ==
    IF ~checkSecuredConnection(st, self, connId)
    THEN Emit(SetStatus(st, connId, "OfferAccepted"),
              Call("secureConnection", connId, Undefined))
    ELSE Emit(SetStatus(st, connId, "Ready"),
              Call("NewPeer", connId, st.ag.connections[connId].peer))

\* sameGroup: the offer names this peer group; sameIdentity: the identity
\* hash it carries is the one the peer source gives for its source
onReceivingOffer(st, self, connId, source, destination, sameGroup, sameIdentity) ==
    LET peer == getPeerForEndpoint(self, source)
        known == MapHas(st.ag.connections, connId)
        fresh == ~known /\ shouldAcceptPeerConnection(st, self, connId, peer)
        added == IF fresh
                 THEN addPeerConnection(st, self, connId, peer, "WaitingForOffer")
                 ELSE st
        valid == /\ known
                 /\ sameGroup
                 /\ st.ag.connections[connId].status \in {"WaitingForOffer", "OfferSent"}
                 /\ source = st.ag.connections[connId].peer
                 /\ destination = self
                 /\ sameIdentity
        reply == \/ fresh
                 \/ ~known /\ peer # Undefined /\ sameIdentity /\ sameGroup
                 \/ valid
        accept == fresh \/ (valid /\ checkConnectionRemoteInstance(st, self, connId))
    IN  With(IF reply THEN sendOfferReply(added, connId, accept) ELSE added,
             LAMBDA s : IF accept THEN offerAccepted(s, self, connId)
                        ELSE Emit(removePeerConnection(s, connId), release(connId)))

onReceivingOfferReply(st, self, connId, source, destination, sameGroup, sameIdentity, accepted) ==
    IF /\ MapHas(st.ag.connections, connId)
       /\ sameGroup
       /\ st.ag.connections[connId].status = "OfferSent"
       /\ source = st.ag.connections[connId].peer
       /\ destination = self
       /\ sameIdentity
       /\ accepted
    THEN offerAccepted(st, self, connId)
    ELSE st

\* the connection is made Ready and no event is broadcast
onConnectionAuthenticationSilent(st, self, connId) ==
    IF /\ MapHas(st.ag.connections, connId)
       /\ st.ag.connections[connId].status = "OfferAccepted"
       /\ checkSecuredConnection(st, self, connId)
    THEN SetStatus(st, connId, "Ready")
    ELSE st

onConnectionAuthentication(st, self, connId) ==
    IF /\ MapHas(st.ag.connections, connId)
       /\ st.ag.connections[connId].status = "OfferAccepted"
       /\ checkSecuredConnection(st, self, connId)
    THEN Emit(SetStatus(st, connId, "Ready"),
              Call("NewPeer", connId, st.ag.connections[connId].peer))
    ELSE st

onConnectionClose(st, connId) == removePeerConnection(st, connId)

\* the end of init(), after its loop: queryForOnlinePeers() is started and
\* the tick timer is set
initEnd(st, self) ==
    With(queryStart(st),
         LAMBDA s : [(IF queryAsks(st.ag)
                      THEN queryCandidates(s, self, peerSource[self])
                      ELSE s) EXCEPT !.ag.tickTimerRef = "set"])

\* init(), for an agent that starts with no connection of its endpoint
\* open: it listens, runs queryForOnlinePeers and sets the tick timer
init(st, self) == initEnd(Emit(st, Call("listen", Undefined, self)), self)

\* the loop of init() up to its next await on the peer source: the
\* connections that are not open are passed over; initPending is what is
\* left of the connections, the first being the one the await is for
RECURSIVE initLoop(_, _, _)
initLoop(st, self, connections) ==
    IF connections = <<>> THEN initEnd([st EXCEPT !.ag.initPending = <<>>], self)
    ELSE IF checkConnection(Head(connections))
    THEN [st EXCEPT !.ag.initPending = connections]
    ELSE initLoop(st, self, Tail(connections))

\* the loop of init() from the answer of the peer source on
initResume(st, self) ==
    LET connId == Head(st.ag.initPending)
        peer == getPeerForEndpoint(self, OtherEnd(connId, self))
    IN  IF ~shouldConnectToPeer(st.ag, self, peer)
        THEN initLoop(st, self, Tail(st.ag.initPending))
        ELSE With(addPeerConnection(
                      Emit(st, Call("acceptConnection", connId, Undefined)),
                      self, connId, peer, "OfferSent"),
                  LAMBDA s :
             IF s.thrown THEN [s EXCEPT !.ag.initPending = <<>>]
             ELSE initLoop(sendOffer(s, connId), self, Tail(st.ag.initPending)))

\* shutdown()
shutdown(st) ==
    [st EXCEPT !.ag.tickTimerRef = Undefined, !.ag.shutdownReturned = TRUE]

(***************************************************************************)
(* The transport and the pods.  An endpoint whose peer source is empty     *)
(* runs no agent of its own in the run: its part is played by the          *)
(* environment, and the events raised for it are dropped.                  *)
(***************************************************************************)
Agents == {ep \in Endpoints : peerSource[ep] # <<>>}

Event(to, type, connId, arg) ==
    [to |-> to, type |-> type, connId |-> connId, arg |-> arg]

\* the inbox: per endpoint and connection (or none), the events raised and
\* not yet delivered, in the order they were raised; a transport delivers
\* what it carries in order
Channels == Endpoints \X (AllConnIds \cup {Undefined})
NoEvents == [ch \in Channels |-> <<>>]
Channel(ev) == <<ev.to, ev.connId>>

\* the events that can be delivered next
Deliverable == {inbox[ch][1] : ch \in {c \in Channels : inbox[c] # <<>>}}

\* the events are raised, for the endpoints that run an agent
RECURSIVE Raise(_, _)
Raise(box, events) ==
    IF events = <<>> THEN box
    ELSE With(IF Head(events).to \in Agents
              THEN [box EXCEPT ![Channel(Head(events))] = Append(@, Head(events))]
              ELSE box,
              LAMBDA b : Raise(b, Tail(events)))

\* the events of a connection that closes are lost
Dropped(box, connId) ==
    [ch \in Channels |-> IF ch[2] = connId THEN <<>> ELSE box[ch]]

\* a set of endpoints, in some order
RECURSIVE SeqOfEndpoints(_)
SeqOfEndpoints(eps) ==
    IF eps = {} THEN <<>>
    ELSE LET ep == CHOOSE e \in eps : TRUE
         IN  <<ep>> \o SeqOfEndpoints(eps \ {ep})

\* PeerSource.getPeers(count)
getPeersOfSource(self, count) ==
    SubSeq(peerSource[self], 1,
           IF Len(peerSource[self]) < count THEN Len(peerSource[self]) ELSE count)

\* the state of the environment while the calls of a handler are applied
World == [net |-> net, secured |-> secured, inbox |-> inbox]

\* one call of the agent at self on its NetworkAgent / SecureNetworkAgent
ApplyCall(w, self, call) ==
    LET connId == call.connId
        remote == CHOOSE ep \in w.net[connId].ends : ep # self
        ends == SeqOfEndpoints(w.net[connId].ends)
    IN  CASE call.type = "queryForListeningAddresses" ->
                 [w EXCEPT !.inbox = Raise(@,
                     [i \in 1..Len(call.arg) |->
                         Event(IF agents[call.arg[i]].started THEN self ELSE Undefined,
                               "RemoteAddressListening", Undefined, call.arg[i])])]
          [] call.type = "connect" ->
                 [w EXCEPT !.net[connId] = [state |-> "requested",
                                             ends |-> {self, call.arg}],
                           !.inbox = Raise(@, <<Event(call.arg, "Received", connId,
                                                      Undefined)>>)]
          [] call.type = "acceptConnection" ->
                 IF w.net[connId].state # "requested" THEN w
                 ELSE [w EXCEPT !.net[connId].state = "open",
                                !.inbox = Raise(@,
                                    [i \in 1..Len(ends) |->
                                        Event(ends[i], "Ready", connId, Undefined)])]
          [] call.type = "releaseConnection" ->
                 IF w.net[connId].state \notin {"requested", "open"} THEN w
                 ELSE [w EXCEPT !.net[connId].state = "closed",
                                !.secured = {s \in @ : s[2] # connId},
                                !.inbox = Raise(Dropped(@, connId),
                                    [i \in 1..Len(ends) |->
                                        Event(ends[i], "Closed", connId, Undefined)])]
          [] call.type \in {"sendMessage", "sendSecurely"} ->
                 IF w.net[connId].state # "open" THEN w
                 ELSE [w EXCEPT !.inbox = Raise(@, <<Event(remote, call.arg, connId,
                                                           "valid")>>)]
          [] call.type = "secureConnection" ->
                 IF w.net[connId].state # "open" THEN w
                 ELSE [w EXCEPT !.inbox = Raise(@,
                          <<Event(self, "ConnectionIdentityAuth", connId, Undefined)>>)]
          [] OTHER -> w

RECURSIVE ApplyCalls(_, _, _)
ApplyCalls(w, self, calls) ==
    IF calls = <<>> THEN w
    ELSE With(ApplyCall(w, self, Head(calls)),
              LAMBDA x : ApplyCalls(x, self, Tail(calls)))

\* the peers that the events broadcast in calls leave announced: those of a
\* NewPeer event that no LostPeer event has followed (kept to state
\* properties, as a local agent listening to the events would)
RECURSIVE Announced(_, _)
Announced(peers, calls) ==
    IF calls = <<>> THEN peers
    ELSE Announced(CASE Head(calls).type = "NewPeer" -> peers \cup {Head(calls).arg}
                     [] Head(calls).type = "LostPeer" -> peers \ {Head(calls).arg}
                     [] OTHER -> peers,
                   Tail(calls))

\* the agent at self has run a handler to st, from the world w
Handled(self, st, w) ==
    \E s \in {st} : \E x \in {ApplyCalls(w, self, s.out)} :
        /\ agents' = [agents EXCEPT ![self] =
                         [s.ag EXCEPT !.announced = Announced(@, s.out)]]
        /\ net' = x.net
        /\ secured' = x.secured
        /\ inbox' = x.inbox
        /\ UNCHANGED peerSource

Running(self) == self \in Agents /\ agents[self].started

(***************************************************************************)
(* The steps of an agent.                                                  *)
(***************************************************************************)
\* ready(pod) and init()
Start(self) ==
    /\ self \in Agents
    /\ ~agents[self].started
    /\ Handled(self,
               init(Handling([agents[self] EXCEPT !.started = TRUE]), self),
               World)

\* the tick timer fires; the tick runs to its first await on the peer source
Tick(self) ==
    /\ Running(self)
    /\ agents[self].tickTimerRef # Undefined
    /\ Handled(self, tick(Handling(agents[self]), self), World)

\* the peer source answers and the tick runs to its end
TickResumes(self) ==
    /\ Running(self)
    /\ agents[self].ticking > 0
    /\ Handled(self,
               tickResume(Handling(agents[self]), self,
                          getPeersOfSource(self, minPeers * 5)),
               World)

(***************************************************************************)
(* receiveLocalEvent: the event ev reaches its agent, the rest of the      *)
(* environment being w.                                                    *)
(***************************************************************************)
\* the event ev is taken from the inbox
Taken(ev) == [World EXCEPT !.inbox[Channel(ev)] = Tail(@)]

RemoteAddressListening(ev, w) ==
    /\ ev.type = "RemoteAddressListening"
    /\ Running(ev.to)
    /\ IF shouldConnectToPeer(agents[ev.to], ev.to, getPeerForEndpoint(ev.to, ev.arg))
       THEN \E connId \in ConnIds :
               /\ net[connId].state = "none"
               /\ Handled(ev.to,
                          onOnlineEndpointDiscovery(Handling(agents[ev.to]), ev.to,
                                                    ev.arg, connId),
                          w)
       ELSE Handled(ev.to, Handling(agents[ev.to]), w)

ConnectionStatusChange(ev, w) ==
    /\ ev.type \in {"Received", "Ready", "Closed"}
    /\ Running(ev.to)
    /\ LET st == Handling(agents[ev.to])
           remote == OtherEnd(ev.connId, ev.to)
       IN  Handled(ev.to,
                   CASE ev.type = "Closed" -> onConnectionClose(st, ev.connId)
                     [] ev.type = "Received" ->
                            onConnectionRequest(st, ev.to, ev.connId, ev.to, remote)
                     [] ev.type = "Ready" ->
                            onConnectionEstablishment(st, ev.to, ev.connId, ev.to,
                                                      remote),
                   w)

MessageReceived(ev, w) ==
    /\ ev.type \in {"PeeringOffer", "PeeringOfferReply:accepted",
                    "PeeringOfferReply:rejected"}
    /\ Running(ev.to)
    /\ LET st == Handling(agents[ev.to])
           remote == OtherEnd(ev.connId, ev.to)
       IN  Handled(ev.to,
                   IF ev.type = "PeeringOffer"
                   THEN onReceivingOffer(st, ev.to, ev.connId, remote, ev.to,
                                         ev.arg # "otherGroup",
                                         ev.arg # "otherIdentity")
                   ELSE onReceivingOfferReply(st, ev.to, ev.connId, remote, ev.to,
                                              ev.arg # "otherGroup",
                                              ev.arg # "otherIdentity",
                                              ev.type = "PeeringOfferReply:accepted"),
                   w)

\* the secure channel of the connection is authenticated at ev.to
ConnectionIdentityAuth(ev, w) ==
    /\ ev.type = "ConnectionIdentityAuth"
    /\ Running(ev.to)
    /\ Handled(ev.to,
               onConnectionAuthentication(
                   [Handling(agents[ev.to]) EXCEPT !.authenticated = {ev.connId}],
                   ev.to, ev.connId),
               [w EXCEPT !.secured = @ \cup {<<ev.to, ev.connId>>}])

SecureMessageReceived(ev, w) ==
    /\ ev.type \in {"ChooseConnection", "ConfirmChosenConnection"}
    /\ Running(ev.to)
    /\ Handled(ev.to,
               onConnectionSelection(Handling(agents[ev.to]), ev.connId, ev.type),
               w)

(***************************************************************************)
(* Time.                                                                   *)
(***************************************************************************)
Aged(ag) ==
    [ag EXCEPT
        !.connections = [c \in DOMAIN @ |-> [@[c] EXCEPT !.timestamp = "old"]],
        !.connectionAttemptTimestamps = [ep \in DOMAIN @ |-> "old"],
        !.onlineQueryTimestamps = <<>>,
        !.peerDiscoveryTimestamp = IF @ = Undefined THEN @ ELSE "old"]

\* more than every interval of the params elapses
TimePasses ==
    /\ agents' = [ep \in Endpoints |-> Aged(agents[ep])]
    /\ agents' # agents
    /\ UNCHANGED <<net, secured, inbox, peerSource>>

\* the same, in a mesh where every event is delivered and every peer source
\* answers well within the intervals
TimePassesQuietly ==
    /\ inbox = NoEvents
    /\ \A ep \in Agents : agents[ep].tickLock = "free"
    /\ TimePasses

(***************************************************************************)
(* The endpoints played by the environment.                                *)
(***************************************************************************)
Played(connId, self) ==
    /\ self \in net[connId].ends
    /\ Running(self)
    /\ OtherEnd(connId, self) \notin Agents

\* a played endpoint is found to be listening
RemoteListens(self, ep) ==
    /\ ep \notin Agents
    /\ RemoteAddressListening(Event(self, "RemoteAddressListening", Undefined, ep),
                              World)

\* the played endpoint ep connects to the agent at self
RemoteConnects(self, ep, connId) ==
    /\ Running(self)
    /\ ep \notin Agents
    /\ net[connId].state = "none"
    /\ \E requested \in {[net EXCEPT ![connId] =
                              [state |-> "requested", ends |-> {self, ep}]]} :
          /\ net' = requested
          /\ inbox' = Raise(inbox, <<Event(self, "Received", connId, Undefined)>>)
    /\ UNCHANGED <<agents, secured, peerSource>>

\* a played endpoint accepts the connection the agent at self asked for
RemoteAccepts(self, connId) ==
    /\ Played(connId, self)
    /\ net[connId].state = "requested"
    /\ MapHas(agents[self].connections, connId)
    /\ agents[self].connections[connId].status = "Connecting"
    /\ net' = [net EXCEPT ![connId].state = "open"]
    /\ inbox' = Raise(inbox, <<Event(self, "Ready", connId, Undefined)>>)
    /\ UNCHANGED <<agents, secured, peerSource>>

\* the connection closes
RemoteCloses(self, connId) ==
    /\ Played(connId, self)
    /\ net[connId].state \in {"requested", "open"}
    /\ net' = [net EXCEPT ![connId].state = "closed"]
    /\ secured' = {s \in secured : s[2] # connId}
    /\ inbox' = Raise(Dropped(inbox, connId),
                      <<Event(self, "Closed", connId, Undefined)>>)
    /\ UNCHANGED <<agents, peerSource>>

RemoteMessageTypes ==
    {"PeeringOffer", "PeeringOfferReply:accepted", "PeeringOfferReply:rejected"}
RemoteMessageKinds == {"valid", "otherGroup", "otherIdentity"}

\* a played endpoint sends an offer or an offer reply
RemoteSends(self, connId, type, kind) ==
    /\ Played(connId, self)
    /\ net[connId].state = "open"
    /\ inbox[<<self, connId>>] = <<>>
    /\ MessageReceived(Event(self, type, connId, kind), World)

\* a played endpoint sends ChooseConnection or ConfirmChosenConnection
RemoteSelects(self, connId, type) ==
    /\ Played(connId, self)
    /\ net[connId].state = "open"
    /\ <<self, connId>> \in secured
    /\ inbox[<<self, connId>>] = <<>>
    /\ SecureMessageReceived(Event(self, type, connId, Undefined), World)

\* the secure channel to a played endpoint is authenticated
RemoteAuthenticates(self, connId) ==
    /\ Played(connId, self)
    /\ net[connId].state = "open"
    /\ <<self, connId>> \notin secured
    /\ ConnectionIdentityAuth(Event(self, "ConnectionIdentityAuth", connId,
                                    Undefined), World)

(***************************************************************************)
(* Initial states and next-state relations.                                *)
(***************************************************************************)
PeerInit ==
    /\ agents = [ep \in Endpoints |-> NewPeerGroupAgent]
    /\ net = [connId \in AllConnIds |-> NoConnection]
    /\ secured = {}
    /\ inbox = NoEvents
    /\ peerSource \in {[ep \in Endpoints |-> <<>>],
                       [a |-> <<"b", "c">>, b |-> <<>>, c |-> <<>>],
                       [a |-> <<"b">>, b |-> <<"a">>, c |-> <<>>]}


(***************************************************************************)
(* An agent in a pod whose NetworkAgent holds connections of its endpoint  *)
(* that other agents of the pod opened.                                    *)
(***************************************************************************)
\* NetworkAgent.getAllConnectionsInfo(), those with ci.localEndpoint the
\* endpoint of the agent
ConnectionsOf(self) ==
    SelectSeq(ConnOrder, LAMBDA connId : self \in net[connId].ends)

\* ready(pod): init() runs to its first await, or to its end
Ready(self) ==
    /\ self \in Agents
    /\ ~agents[self].started
    /\ Handled(self,
               initLoop(Emit(Handling([agents[self] EXCEPT !.started = TRUE]),
                             Call("listen", Undefined, self)),
                        self, ConnectionsOf(self)),
               World)

\* the peer source answers and init() runs to its next await, or to its end
InitResumes(self) ==
    /\ Running(self)
    /\ agents[self].initPending # <<>>
    /\ Handled(self, initResume(Handling(agents[self]), self), World)

\* the peer source rejects the query of a tick that awaits it
TickThrows(self) ==
    /\ Running(self)
    /\ agents[self].ticking > 0
    /\ Handled(self, tickThrows(Handling(agents[self])), World)

\* shutdown(), on an agent that ready() was called on
Shutdown(self) ==
    /\ Running(self)
    /\ Handled(self, shutdown(Handling(agents[self])), World)
(***************************************************************************)
(* A peer source that stops recognizing an endpoint.                       *)
(***************************************************************************)
\* the peer source of the agent at self answers undefined for ep from now
\* on (it keeps the other peer)
PeerSourceForgets(self, ep) ==
    /\ Running(self)
    /\ ep \in Range(peerSource[self])
    /\ Len(peerSource[self]) > 1
    /\ peerSource' = [peerSource EXCEPT ![self] = SelectSeq(@, LAMBDA p : p # ep)]
    /\ UNCHANGED <<agents, net, secured, inbox>>

\* sendToPeer(ep, agentId, content): what it returns
sendToPeer(ag, ep) == findWorkingConnectionId(ag, ep) # Undefined

(***************************************************************************)
(* The connection attempts, with the clock read in milliseconds.           *)
(***************************************************************************)
\* params.peerConnectionAttemptInterval, in seconds
peerConnectionAttemptInterval == 1

\* the clock stops at MaxClock
MaxClock == 3000

\* the clock advances by half a second or by a second
ClockSteps == {500, 1000}

ClockInit == clock = 0

ClockAdvances(d) ==
    /\ clock + d <= MaxClock
    /\ clock' = clock + d

\* shouldConnectToPeerAt that connects once the interval has elapsed
shouldConnectAtInterval(ag, self, p, now) ==
    /\ p # Undefined
    /\ Cardinality(DOMAIN ag.connectionsPerEndpoint) < minPeers
    /\ ~MapHas(ag.connectionsPerEndpoint, p)
    /\ self # p
    /\ \/ ~MapHas(ag.connectionAttemptTimestamps, p)
       \/ now >= ag.connectionAttemptTimestamps[p]
                    + peerConnectionAttemptInterval * 1000

\* shouldConnectToPeer, with now = Date.now()
shouldConnectToPeerAt(ag, self, p, now) ==
    /\ p # Undefined
    /\ Cardinality(DOMAIN ag.connectionsPerEndpoint) < minPeers
    /\ ~MapHas(ag.connectionsPerEndpoint, p)
    /\ self # p
    /\ \/ ~MapHas(ag.connectionAttemptTimestamps, p)
       \/ now > ag.connectionAttemptTimestamps[p]
                   + peerConnectionAttemptInterval * 1000

\* onOnlineEndpointDiscovery, with now = Date.now()
onOnlineEndpointDiscoveryAt(st, self, ep, connId, now) ==
    LET peer == getPeerForEndpoint(self, ep)
    IN  IF shouldConnectToPeerAt(st.ag, self, peer, now)
        THEN With(addPeerConnection(
                      [Emit(st, Call("connect", connId, peer))
                          EXCEPT !.dialed = MapSet(@, connId, peer)],
                      self, connId, peer, "Connecting"),
                  LAMBDA s : IF s.thrown THEN s
                             ELSE [s EXCEPT !.ag.connectionAttemptTimestamps =
                                               MapSet(@, ep, now)])
        ELSE st

\* the played endpoint ep is found listening by the agent at self, now
RemoteListensAt(self, ep) ==
    /\ Running(self)
    /\ ep \notin Agents
    /\ IF shouldConnectToPeerAt(agents[self], self, getPeerForEndpoint(self, ep),
                                clock)
       THEN \E connId \in ConnIds :
               /\ net[connId].state = "none"
               /\ Handled(self,
                          onOnlineEndpointDiscoveryAt(Handling(agents[self]), self,
                                                      ep, connId, clock),
                          World)
       ELSE Handled(self, Handling(agents[self]), World)

(***************************************************************************)
(* Remote process instances.                                               *)
(***************************************************************************)
\* the instances a played endpoint connects as: the one it runs, one started
\* anew, or none that its transport reports
InstancesOf(ep) == {InstanceOf(ep), "j-" \o ep, Undefined}

\* the played endpoint ep connects to the agent at self as the given instance
RemoteConnectsAs(self, ep, connId, instance) ==
    /\ Running(self)
    /\ ep \notin Agents
    /\ net[connId].state = "none"
    /\ \E requested \in {[net EXCEPT ![connId] =
                              [state |-> "requested", ends |-> {self, ep},
                               instance |-> instance]]} :
          /\ net' = requested
          /\ inbox' = Raise(inbox, <<Event(self, "Received", connId, Undefined)>>)
    /\ UNCHANGED <<agents, secured, peerSource>>

(***************************************************************************)
(*                          HASHED OBJECTS                                 *)
(*                                                                         *)
(* A value held in a field is a record tagged by k: a scalar, undefined,   *)
(* a function, an array, a plain dictionary, a HashReference or a          *)
(* HashedObject.  A HashedObject carries its class, its own enumerable     *)
(* keys in Object.keys order, their values, and its private state          *)
(* (_derivedFields, _signOnSave, _lastSignature).  HashedSet and HashedMap *)
(* are not part of the sources at hand and do not occur.                   *)
(*                                                                         *)
(* Hashing.forValue is collision free and canonical (keys sorted): it is   *)
(* modelled by a wrapper around the value it hashes, dictionaries being    *)
(* functions of their keys.                                                *)
(***************************************************************************)
UndefinedValue == [k |-> "undefined"]
Scalar(v) == [k |-> "scalar", v |-> v]
Function == [k |-> "function"]
Array(items) == [k |-> "array", items |-> items]
Dict(keys, vals) == [k |-> "dict", keys |-> keys, vals |-> vals]

\* new HashReference(hash, className)
HashReference(hash, className) ==
    [k |-> "reference", hash |-> hash, className |-> className]

NoSignature == [defined |-> FALSE]

\* the signature made with a private key over a hash
Signature(key, hash) == [defined |-> TRUE, key |-> key, hash |-> hash]

\* a HashedObject as its constructor and the assignments of its fields
\* leave it
HashedObject(cls, keys, vals) ==
    [k |-> "object", cls |-> cls, keys |-> keys, vals |-> vals,
     derived |-> {}, signOnSave |-> FALSE, lastSignature |-> NoSignature]

\* this[fieldName]
Get(obj, fieldName) ==
    IF fieldName \in DOMAIN obj.vals THEN obj.vals[fieldName] ELSE UndefinedValue

\* this[fieldName] = value: a new key goes last in Object.keys
Put(obj, fieldName, value) ==
    [obj EXCEPT
        !.keys = IF fieldName \in Range(@) THEN @ ELSE Append(@, fieldName),
        !.vals = [f \in DOMAIN @ \cup {fieldName} |->
                     IF f = fieldName THEN value ELSE @[f]]]

\* the canonical form of a literal value: the keys of a dictionary sorted,
\* that is, the dictionary as the function of its keys
RECURSIVE Canonical(_)
Canonical(value) ==
    CASE value.k = "dict" ->
             [k |-> "dict",
              fields |-> [f \in Range(value.keys) |-> Canonical(value.vals[f])]]
      [] value.k = "array" ->
             Array([i \in 1..Len(value.items) |-> Canonical(value.items[i])])
      [] value.k = "hashed_object" ->
             [value EXCEPT !.fields = Canonical(@)]
      [] OTHER -> value

\* Hashing.forValue(value)
forValue(value) == [sha |-> Canonical(value)]

\* new Context()
NewContext == [literals |-> <<>>, objects |-> <<>>, rootHashes |-> <<>>]

\* fieldName.length > 0 && fieldName[0] !== '_'
PrivateNames == {"", "_cache", "_tmp"}
IsPublic(fieldName) == fieldName \notin PrivateNames

\* HashedObject.shouldLiteralizeField
shouldLiteralizeField(something) == something.k \notin {"undefined", "function"}

\* Map.set(Hashing.forValue(dependency), dependency)
SetDependency(dependencies, dependency) ==
    IF dependency \in Range(dependencies) THEN dependencies
    ELSE Append(dependencies, dependency)

\* HashedObject.collectChildDeps
RECURSIVE collectChildDeps(_, _, _, _)
collectChildDeps(parentDeps, path, childDeps, direct) ==
    IF childDeps = <<>> THEN parentDeps
    ELSE LET childDep == Head(childDeps)
             sep == IF childDep.path # "" /\ path # "" THEN "." ELSE ""
             newDep == [path |-> path \o sep \o childDep.path,
                        hash |-> childDep.hash,
                        className |-> childDep.className,
                        type |-> childDep.type,
                        direct |-> childDep.direct /\ direct]
         IN  With(SetDependency(parentDeps, newDep),
                  LAMBDA deps : collectChildDeps(deps, path, Tail(childDeps), direct))

\* customHash(): Identity derives its hash from its public key
customHash(obj) ==
    IF obj.cls = "Identity"
    THEN [defined |-> TRUE, hash |-> forValue(Get(obj, "publicKey"))]
    ELSE [defined |-> FALSE]

RECURSIVE literalizeInContext(_, _, _)
RECURSIVE literalizeField(_, _, _)
RECURSIVE literalizeElements(_, _, _)
RECURSIVE literalizeKeys(_, _, _, _)

\* the loop of literalizeField over the elements of an array; acc is
\* [value, dependencies, context]
literalizeElements(fieldPath, elements, acc) ==
    IF elements = <<>> THEN acc
    ELSE IF ~shouldLiteralizeField(Head(elements))
    THEN literalizeElements(fieldPath, Tail(elements), acc)
    ELSE With(literalizeField("", Head(elements), acc.context), LAMBDA child :
             literalizeElements(fieldPath, Tail(elements),
                 [value |-> Append(acc.value, child.value),
                  dependencies |-> collectChildDeps(acc.dependencies, fieldPath,
                                                    child.dependencies, TRUE),
                  context |-> child.context]))

\* the loop over Object.keys of a HashedObject (path is the path given to
\* literalizeInContext) or of a plain dictionary (path is its field path);
\* acc is [value, dependencies, context]
literalizeKeys(path, holder, keys, acc) ==
    IF keys = <<>> THEN acc
    ELSE IF ~IsPublic(Head(keys)) \/ ~shouldLiteralizeField(Get(holder, Head(keys)))
    THEN literalizeKeys(path, holder, Tail(keys), acc)
    ELSE With(literalizeField(Head(keys), Get(holder, Head(keys)), acc.context),
              LAMBDA field :
                 literalizeKeys(path, holder, Tail(keys),
                     [value |-> Put(acc.value, Head(keys), field.value),
                      dependencies |-> collectChildDeps(acc.dependencies, path,
                                                        field.dependencies, TRUE),
                      context |-> field.context]))

\* HashedObject.literalizeField
literalizeField(fieldPath, something, context) ==
    CASE something.k = "scalar" ->
             [value |-> something, dependencies |-> <<>>, context |-> context]
      [] something.k = "array" ->
             With(literalizeElements(fieldPath, something.items,
                      [value |-> <<>>, dependencies |-> <<>>, context |-> context]),
                  LAMBDA r : [r EXCEPT !.value = Array(@)])
      [] something.k = "reference" ->
             [value |-> [k |-> "hashed_object_reference",
                         hash |-> something.hash, className |-> something.className],
              dependencies |-> <<[path |-> fieldPath, hash |-> something.hash,
                                  className |-> something.className,
                                  type |-> "reference", direct |-> TRUE]>>,
              context |-> context]
      [] something.k = "object" ->
             With(literalizeInContext(something, context, ""), LAMBDA r :
                 [value |-> [k |-> "hashed_object_dependency", hash |-> r.hash],
                  dependencies |->
                      collectChildDeps(
                          <<[path |-> fieldPath, hash |-> r.hash,
                             className |-> something.cls,
                             type |-> "literal", direct |-> TRUE]>>,
                          fieldPath, r.context.literals[r.hash].dependencies, FALSE),
                  context |-> r.context])
      [] something.k = "dict" ->
             With(literalizeKeys(fieldPath, something, something.keys,
                      [value |-> Dict(<<>>, <<>>), dependencies |-> <<>>,
                       context |-> context]),
                  LAMBDA r : r)

\* HashedObject.literalizeInContext: the hash, and the context afterwards
literalizeInContext(obj, context, path) ==
    With(literalizeKeys(path, obj, obj.keys,
             [value |-> Dict(<<>>, <<>>), dependencies |-> <<>>,
              context |-> context]),
         LAMBDA r :
    With([k |-> "hashed_object", class |-> obj.cls, fields |-> r.value,
          flags |-> <<>>],
         LAMBDA value :
    With(IF customHash(obj).defined THEN customHash(obj).hash ELSE forValue(value),
         LAMBDA hash :
         [hash |-> hash,
          context |->
              [r.context EXCEPT
                  !.objects = [h \in DOMAIN @ \cup {hash} |->
                                  IF h = hash THEN obj ELSE @[h]],
                  !.literals = [h \in DOMAIN @ \cup {hash} |->
                      IF h = hash
                      THEN [hash |-> hash, value |-> value,
                            dependencies |-> r.dependencies,
                            author |-> IF Get(obj, "author").k # "undefined"
                                       THEN Get(r.value, "author")
                                       ELSE UndefinedValue,
                            signature |-> IF Get(obj, "author").k # "undefined"
                                          THEN obj.lastSignature
                                          ELSE NoSignature]
                      ELSE @[h]]]])))

\* toContext(): a new context holding the object, its hash the root hash
toObjectContext(obj) ==
    With(literalizeInContext(obj, NewContext, ""), LAMBDA r :
        [r.context EXCEPT !.rootHashes = Append(@, r.hash)])

\* hash()
hashOf(obj) ==
    IF customHash(obj).defined THEN customHash(obj).hash
    ELSE toObjectContext(obj).rootHashes[1]

(***************************************************************************)
(* Deliteralization.  The class registry and the classes are not part of   *)
(* the sources at hand: a class is known by its name, the derived fields   *)
(* its constructor registers, and what its validate() answers.             *)
(***************************************************************************)
\* ClassRegistry.lookup(className) !== undefined
RegisteredClasses == {"Identity", "Note", "Folder"}

\* the fields the constructor of a class registers with addDerivedField
DerivedFieldsOf(cls) == IF cls = "Folder" THEN {"first", "second"} ELSE {}

\* new constr()
Construct(cls) ==
    [HashedObject(cls, <<>>, <<>>) EXCEPT !.derived = DerivedFieldsOf(cls)]

RECURSIVE deliteralizeInContext(_, _)
RECURSIVE deliteralizeField(_, _)
RECURSIVE deliteralizeElements(_, _)
RECURSIVE deliteralizeEntries(_, _, _)

\* a step that threw leaves the context as it found it at that point
Thrown(context) == [something |-> UndefinedValue, context |-> context, thrown |-> TRUE]
Returned(something, context) ==
    [something |-> something, context |-> context, thrown |-> FALSE]

\* the loop of deliteralizeField over an array; acc is a Returned record
deliteralizeElements(elements, acc) ==
    IF elements = <<>> \/ acc.thrown THEN acc
    ELSE With(deliteralizeField(Head(elements), acc.context), LAMBDA r :
             IF r.thrown THEN r
             ELSE deliteralizeElements(Tail(elements),
                      Returned(Append(acc.something, r.something), r.context)))

\* a loop that assigns no entry
deliteralizeNoEntries(dict, keys, acc) == acc

\* the loop over Object.entries of a literal dictionary into holder
deliteralizeEntries(dict, keys, acc) ==
    IF keys = <<>> \/ acc.thrown THEN acc
    ELSE IF acc.something.k = "object" /\ ~IsPublic(Head(keys))
    THEN deliteralizeEntries(dict, Tail(keys), acc)
    ELSE With(deliteralizeField(dict.vals[Head(keys)], acc.context), LAMBDA r :
             IF r.thrown THEN r
             ELSE deliteralizeEntries(dict, Tail(keys),
                      Returned(Put(acc.something, Head(keys), r.something),
                               r.context)))

\* HashedObject.deliteralizeField
deliteralizeField(value, context) ==
    CASE value.k = "scalar" -> Returned(value, context)
      [] value.k = "array" ->
             With(deliteralizeElements(value.items, Returned(<<>>, context)),
                  LAMBDA r : IF r.thrown THEN r
                             ELSE Returned(Array(r.something), r.context))
      [] value.k = "dict" ->
             deliteralizeEntries(value, value.keys,
                                 Returned(Dict(<<>>, <<>>), context))
      [] value.k = "hashed_object_reference" ->
             Returned(HashReference(value.hash, value.className), context)
      [] value.k = "hashed_object_dependency" ->
             With(deliteralizeInContext(value.hash, context), LAMBDA r :
                 IF r.thrown THEN r
                 ELSE Returned(r.context.objects[value.hash], r.context))
      [] OTHER -> Thrown(context)

\* HashedObject.deliteralizeInContext
deliteralizeInContext(objHash, context) ==
    IF objHash \in DOMAIN context.objects THEN Returned(UndefinedValue, context)
    ELSE IF objHash \notin DOMAIN context.literals THEN Thrown(context)
    ELSE LET literal == context.literals[objHash]
         IN  IF literal.value.k # "hashed_object" THEN Thrown(context)
             ELSE IF literal.value.class \notin RegisteredClasses
             THEN Thrown(context)
             ELSE With(deliteralizeEntries(literal.value.fields,
                                           literal.value.fields.keys,
                                           Returned(Construct(literal.value.class),
                                                    context)),
                       LAMBDA r :
                 IF r.thrown THEN r
                 ELSE With(IF Get(r.something, "author").k # "undefined"
                           THEN [r.something EXCEPT
                                    !.lastSignature = literal.signature]
                           ELSE r.something,
                           LAMBDA hashedObject :
                      Returned(UndefinedValue,
                          [r.context EXCEPT
                              !.objects = [h \in DOMAIN @ \cup {objHash} |->
                                              IF h = objHash THEN hashedObject
                                              ELSE @[h]]])))

\* HashedObject.fromContext(context, hash): something is the object
fromContext(context, objHash) ==
    With(deliteralizeInContext(objHash, context), LAMBDA r :
        IF r.thrown THEN r
        ELSE Returned(r.context.objects[objHash], r.context))

\* the loop of clone() that copies _signOnSave and _lastSignature from the
\* objects of the original (current, by hash) to the cloned objects: the
\* cloned object value and every object it holds
RECURSIVE copySignState(_, _)
copySignState(value, current) ==
    CASE value.k = "array" ->
             Array([i \in 1..Len(value.items) |->
                       copySignState(value.items[i], current)])
      [] value.k \in {"dict", "object"} ->
             With([value EXCEPT
                      !.vals = [f \in DOMAIN @ |-> copySignState(@[f], current)]],
                  LAMBDA copied :
                      IF value.k = "object" /\ hashOf(value) \in DOMAIN current
                      THEN [copied EXCEPT
                               !.signOnSave = current[hashOf(value)].signOnSave,
                               !.lastSignature = current[hashOf(value)].lastSignature]
                      ELSE copied)
      [] OTHER -> value

\* clone()
clone(obj) ==
    With(toObjectContext(obj), LAMBDA c :
    With(fromContext([c EXCEPT !.objects = <<>>], c.rootHashes[1]), LAMBDA r :
        IF r.thrown THEN r
        ELSE Returned(copySignState(r.something, c.objects), r.context)))

(***************************************************************************)
(* Validation.  Identity and the classes with their validate() are not     *)
(* part of the sources at hand.  An Identity verifies a signature made     *)
(* with its key over the hash; anything else held in the author field has  *)
(* no verifySignature to call.  The validate() of a Note wants a text     *)
(* that is not empty.                                                      *)
(***************************************************************************)
\* await obj.author.verifySignature(hash, literal.signature)
verifySignature(author, objHash, signature) ==
    IF author.k # "object" \/ author.cls # "Identity" THEN "throws"
    ELSE IF /\ Scalar(signature.key) = Get(author, "publicKey")
            /\ signature.hash = objHash
    THEN "true" ELSE "false"

\* await obj.validate(context.objects)
validate(obj) ==
    IF obj.cls # "Note" THEN "true"
    ELSE IF Get(obj, "text").k # "scalar" THEN "false"
    ELSE IF Get(obj, "text").v = "" THEN "false"
    ELSE "true"

\* context.objects.delete(hash)
DeleteObject(context, objHash) ==
    [context EXCEPT !.objects = [h \in DOMAIN @ \ {objHash} |-> @[h]]]

Rejected(error, context) ==
    [result |-> "rejected", error |-> error, something |-> UndefinedValue,
     context |-> context]
Resolved(something, context) ==
    [result |-> "resolved", error |-> "", something |-> something,
     context |-> context]

RECURSIVE fromContextWithValidation(_, _)
RECURSIVE validateDependencies(_, _)

\* HashedObject.ts 755-760: acc is a Resolved or Rejected record
validateDependencies(deps, acc) ==
    IF deps = <<>> \/ acc.result = "rejected" THEN acc
    ELSE IF Head(deps).hash \in DOMAIN acc.context.objects
    THEN validateDependencies(Tail(deps), acc)
    ELSE With(fromContextWithValidation(acc.context, Head(deps).hash), LAMBDA r :
             validateDependencies(Tail(deps), r))

\* what is checked of the rebuilt object: HashedObject.ts 764-790
\* (verifyWith and validateWith are the two awaited calls)
checkRebuilt(obj, objHash, literal, context) ==
    IF hashOf(obj) # objHash
    THEN Rejected("WrongHash", DeleteObject(context, objHash))
    ELSE IF Get(obj, "author").k # "undefined" /\ ~literal.signature.defined
    THEN Rejected("MissingSignature", DeleteObject(context, objHash))
    ELSE With(IF Get(obj, "author").k # "undefined"
              THEN verifySignature(Get(obj, "author"), objHash, literal.signature)
              ELSE "true",
              LAMBDA verified :
        IF verified = "throws" THEN Rejected("TypeError", context)
        ELSE IF verified = "false"
        THEN Rejected("InvalidSignature", DeleteObject(context, objHash))
        ELSE IF validate(obj) = "false"
        THEN Rejected("ValidationFailed", DeleteObject(context, objHash))
        ELSE Resolved(obj, context))

\* HashedObject.fromContextWithValidation(context, hash)
fromContextWithValidation(context, objHash) ==
    IF objHash \in DOMAIN context.objects
    THEN Resolved(context.objects[objHash], context)
    ELSE IF objHash \notin DOMAIN context.literals
    THEN Rejected("MissingLiteral", context)
    ELSE With(validateDependencies(context.literals[objHash].dependencies,
                                   Resolved(UndefinedValue, context)),
              LAMBDA deps :
        IF deps.result = "rejected" THEN deps
        ELSE With(fromContext(deps.context, objHash), LAMBDA r :
                 IF r.thrown THEN Rejected("Deliteralize", r.context)
                 ELSE checkRebuilt(r.something, objHash,
                                   context.literals[objHash], r.context)))

(***************************************************************************)
(* Ids, derived fields and authorship.  An id is a string: one the         *)
(* application chose, Id(x), or the hash of a derived-field path.          *)
(***************************************************************************)
Id(x) == Scalar([raw |-> x])

\* getId()
getId(obj) == Get(obj, "id")

\* getDerivedFieldId(fieldName): Hashing.forValue('#' + getId() + '.' + fieldName)
getDerivedFieldId(obj, fieldName) ==
    Scalar(forValue([k |-> "string", prefix |-> "#", id |-> getId(obj),
                     dot |-> ".", fieldName |-> fieldName]))

\* setId(id) that leaves the derived fields alone
setOwnId(obj, id) == Put(obj, "id", id)

\* setId(id)
RECURSIVE setId(_, _)
setId(obj, id) ==
    With(Put(obj, "id", id), LAMBDA this :
        [this EXCEPT
            !.vals = [f \in DOMAIN @ |->
                         IF f \in this.derived /\ @[f].k = "object"
                         THEN setId(@[f], getDerivedFieldId(this, f))
                         ELSE @[f]]])

\* checkDerivedField(fieldName)
checkDerivedField(obj, fieldName) ==
    /\ Get(obj, fieldName).k = "object"
    /\ getId(Get(obj, fieldName)) = getDerivedFieldId(obj, fieldName)

\* addDerivedField(fieldName, object?) with setDerivedField(fieldName, object)
addDerivedField(obj, fieldName, object) ==
    With([obj EXCEPT !.derived = @ \cup {fieldName}], LAMBDA this :
        IF object.k = "undefined" THEN this
        ELSE Put(this, fieldName, setId(object, getDerivedFieldId(this, fieldName))))

\* setAuthor(author)
setAuthor(obj, author) ==
    [Put(obj, "author", author) EXCEPT
        !.signOnSave = IF author.k # "undefined" THEN TRUE ELSE @]

(***************************************************************************)
(* Saving.  The backend is the map of the literals it stores, by hash.     *)
(* Identity is not part of the sources at hand: an Identity signs with     *)
(* the private key of its pair when it has one, and throws when not.       *)
(***************************************************************************)
\* the identities whose key pair is at hand
KeyPairs == {"ka"}

\* await author.sign(hash)
sign(author, objHash) ==
    IF author.k = "object" /\ author.cls = "Identity"
       /\ Get(author, "publicKey").k = "scalar"
       /\ Get(author, "publicKey").v \in KeyPairs
    THEN [thrown |-> FALSE,
          signature |-> Signature(Get(author, "publicKey").v, objHash)]
    ELSE [thrown |-> TRUE, signature |-> NoSignature]

SaveThrew(context, stored) ==
    [thrown |-> TRUE, context |-> context, backend |-> stored]
SaveDone(context, stored) ==
    [thrown |-> FALSE, context |-> context, backend |-> stored]

\* Store.findMissingReferencesWithContext, as a record: the missing hashes,
\* and whether a dependency was found under another class than declared
RECURSIVE findMissingLiterals(_, _, _, _)
RECURSIVE findMissingOfDependencies(_, _, _, _)
findMissingOfDependencies(deps, context, stored, acc) ==
    IF deps = <<>> \/ acc.thrown THEN acc
    ELSE LET dependency == Head(deps)
         IN  IF dependency.hash \notin DOMAIN context.literals
             THEN IF dependency.hash \notin DOMAIN stored
                  THEN findMissingOfDependencies(Tail(deps), context, stored,
                           [acc EXCEPT !.missing = @ \cup {dependency.hash}])
                  ELSE IF stored[dependency.hash].value.class # dependency.className
                  THEN [acc EXCEPT !.thrown = TRUE]
                  ELSE findMissingOfDependencies(Tail(deps), context, stored, acc)
             ELSE With(findMissingLiterals(dependency.hash, context,
                           stored, dependency.className),
                       LAMBDA depMissing :
                  IF depMissing.thrown THEN depMissing
                  ELSE findMissingOfDependencies(Tail(deps), context, stored,
                           [acc EXCEPT !.missing = @ \cup depMissing.missing]))

findMissingLiterals(objHash, context, stored, expectedClassName) ==
    IF objHash \notin DOMAIN context.literals
    THEN [thrown |-> FALSE, missing |-> {objHash}]
    ELSE IF expectedClassName # ""
            /\ context.literals[objHash].value.class # expectedClassName
    THEN [thrown |-> TRUE, missing |-> {}]
    ELSE findMissingOfDependencies(context.literals[objHash].dependencies,
                                   context, stored,
                                   [thrown |-> FALSE, missing |-> {}])

\* Store.ts 198-214: the object is signed if it is marked, and an authored
\* object with no signature is refused
signedForSave(objHash, context) ==
    LET object == context.objects[objHash]
        author == Get(object, "author")
    IN  IF author.k = "undefined" THEN [thrown |-> FALSE, context |-> context]
        ELSE IF object.signOnSave
        THEN With(sign(author, objHash), LAMBDA s :
                 IF s.thrown THEN [thrown |-> TRUE, context |-> context]
                 ELSE With([context EXCEPT
                               !.objects[objHash].lastSignature = s.signature],
                           LAMBDA c :
                      IF objHash \notin DOMAIN c.literals
                      THEN [thrown |-> TRUE, context |-> c]
                      ELSE [thrown |-> FALSE,
                            context |-> [c EXCEPT
                                !.literals[objHash].signature = s.signature]]))
        ELSE IF ~object.lastSignature.defined
        THEN [thrown |-> TRUE, context |-> context]
        ELSE [thrown |-> FALSE, context |-> context]

\* await this.backend.store(literal, history)
BackendStore(stored, literal) ==
    [h \in DOMAIN stored \cup {literal.hash} |->
        IF h = literal.hash THEN literal ELSE stored[h]]

\* Store.saveWithContext(hash, context), signing included
RECURSIVE saveLiteralWithContext(_, _, _)
RECURSIVE saveDependencies(_, _)
saveDependencies(deps, acc) ==
    IF deps = <<>> \/ acc.thrown THEN acc
    ELSE IF Head(deps).type = "literal"
    THEN saveDependencies(Tail(deps),
             saveLiteralWithContext(Head(deps).hash, acc.context, acc.backend))
    ELSE saveDependencies(Tail(deps), acc)

saveLiteralWithContext(objHash, context, stored) ==
    IF objHash \notin DOMAIN context.objects THEN SaveThrew(context, stored)
    ELSE With(signedForSave(objHash, context), LAMBDA s :
        IF s.thrown THEN SaveThrew(s.context, stored)
        ELSE IF objHash \in DOMAIN stored THEN SaveDone(s.context, stored)
        ELSE IF objHash \notin DOMAIN s.context.literals
        THEN SaveThrew(s.context, stored)
        ELSE With(saveDependencies(s.context.literals[objHash].dependencies,
                                   SaveDone(s.context, stored)),
                  LAMBDA d :
             IF d.thrown THEN d
             ELSE SaveDone(d.context,
                           BackendStore(d.backend, d.context.literals[objHash]))))

\* Store.save(object): Store.ts 85-97
saveLiteral(object, stored) ==
    With(toObjectContext(object), LAMBDA context :
    With(findMissingLiterals(context.rootHashes[1], context,
                                          stored, ""),
         LAMBDA found :
        IF found.thrown \/ found.missing # {} THEN SaveThrew(context, stored)
        ELSE saveLiteralWithContext(context.rootHashes[1], context, stored)))

(***************************************************************************)
(* The objects the application builds, and what it does with one of them.  *)
(***************************************************************************)
Identity(publicKey) ==
    HashedObject("Identity", <<"publicKey">>, [publicKey |-> Scalar(publicKey)])

Alice == Identity("ka")
Mallory == Identity("km")

Note(text) == HashedObject("Note", <<"text">>, [text |-> Scalar(text)])

\* a Folder: two derived fields, first and second, and a field of its own
Folder(first, second, extra) ==
    Put(addDerivedField(addDerivedField(Construct("Folder"), "first", first),
                        "second", second),
        "extra", extra)

\* the objects the run starts from:
\*   a note; a note whose text is empty; a note without text;
\*   a note with fields that are not literalized, an array and a dictionary;
\*   a folder of two notes; a folder holding a folder, with one derived
\*   field left empty and a note in a field that is not derived
Samples ==
    { Note("hi"),
      Note(""),
      HashedObject("Note", <<>>, <<>>),
      HashedObject("Note", <<"text", "_cache", "render", "tags", "meta">>,
                   [text |-> Scalar("hi"), _cache |-> Scalar("c"),
                    render |-> Function,
                    tags |-> Array(<<Scalar("t"), UndefinedValue,
                                     HashReference(hashOf(Note("hi")), "Note"),
                                     Note("")>>),
                    meta |-> Dict(<<"by", "_tmp", "about">>,
                                  [by |-> Scalar("me"), _tmp |-> Scalar("x"),
                                   about |-> Note("hi")])]),
      Folder(Note("hi"), Note("hi"), UndefinedValue),
      Folder(Folder(Note("hi"), UndefinedValue, UndefinedValue), UndefinedValue,
             Note("hi")) }

Ids == {"x"}
ChildIds == {"y"}

NoOutcome == [op |-> "none"]

\* the object is built and changed first, and literalized or saved last
Unsent == ctx.rootHashes = <<>> /\ outcome.op # "save"

ObjectInit ==
    /\ held \in Samples
    /\ ctx = NewContext
    /\ outcome = NoOutcome
    /\ saved = <<>>

\* object.setId(x)
SetId(x) ==
    /\ Unsent
    /\ held' = setId(held, Id(x))
    /\ outcome' = [op |-> "setId", id |-> Id(x), before |-> held]
    /\ UNCHANGED <<ctx, saved>>

\* object[fieldName].setId(x), on a child held in a derived field
SetChildId(fieldName, x) ==
    /\ Unsent
    /\ fieldName \in held.derived
    /\ Get(held, fieldName).k = "object"
    /\ held' = Put(held, fieldName, setId(Get(held, fieldName), Id(x)))
    /\ outcome' = [op |-> "setChildId", id |-> Id(x)]
    /\ UNCHANGED <<ctx, saved>>

\* object.setAuthor(author)
SetAuthor(author) ==
    /\ Unsent
    /\ held.cls # "Identity"
    /\ Get(held, "author").k = "undefined"
    /\ held' = setAuthor(held, author)
    /\ outcome' = [op |-> "setAuthor"]
    /\ UNCHANGED <<ctx, saved>>

\* object.setLastSignature(await author.sign(object.hash()))
Sign(key) ==
    /\ Unsent
    /\ Get(held, "author").k # "undefined"
    /\ ~held.lastSignature.defined
    /\ held' = [held EXCEPT !.lastSignature = Signature(key, hashOf(held))]
    /\ outcome' = [op |-> "sign"]
    /\ UNCHANGED <<ctx, saved>>

\* object.toContext(context)
ToContext ==
    /\ Unsent
    /\ \E r \in {literalizeInContext(held, ctx, "")} :
           ctx' = [r.context EXCEPT !.rootHashes = Append(@, r.hash)]
    /\ outcome' = [op |-> "toContext"]
    /\ UNCHANGED <<held, saved>>

\* c = object.clone()
Clone ==
    /\ Unsent
    /\ \E r \in {clone(held)} :
           /\ ~r.thrown
           /\ held' = r.something
           /\ outcome' = [op |-> "clone", original |-> held]
    /\ UNCHANGED <<ctx, saved>>

\* the literals of a context as they arrive from elsewhere
\* (Context.fromLiteralContext): no object is built yet, and the literal of
\* the root is as its sender made it
Tampers == {"asIs", "unsigned", "forged", "edited", "authorString", "withheld"}

ReKeyed(literals, from, literal) ==
    [h \in (DOMAIN literals \ {from}) \cup {literal.hash} |->
        IF h = literal.hash THEN literal ELSE literals[h]]

\* the hash the sender names as the root of what it sent
TamperedRoot(literals, root, tamper) ==
    LET authored == [literals[root] EXCEPT
                         !.value.fields = Put(@, "author", Scalar("alice"))]
    IN  IF tamper = "authorString" THEN forValue(authored.value) ELSE root

Tampered(literals, root, tamper) ==
    LET literal == literals[root]
        \* a literal made for other fields, under the hash of these fields
        authored == [literal EXCEPT !.value.fields = Put(@, "author", Scalar("alice"))]
    IN  CASE tamper = "asIs" -> literals
          [] tamper = "unsigned" ->
                 [literals EXCEPT ![root].signature = NoSignature]
          [] tamper = "forged" ->
                 [literals EXCEPT ![root].signature = Signature("km", root)]
          [] tamper = "edited" ->
                 [literals EXCEPT ![root].value.fields = Put(@, "text", Scalar("edited"))]
          [] tamper = "authorString" ->
                 ReKeyed(literals, root,
                         [authored EXCEPT !.hash = forValue(authored.value),
                                          !.signature = Signature("km", forValue(authored.value))])
          [] tamper = "withheld" ->
                 [h \in DOMAIN literals \ {literals[root].dependencies[1].hash} |->
                     literals[h]]

Receive(tamper) ==
    /\ outcome.op = "toContext"
    /\ tamper = "withheld" => ctx.literals[ctx.rootHashes[1]].dependencies # <<>>
    /\ tamper = "authorString" =>
           /\ Get(ctx.literals[ctx.rootHashes[1]].value.fields, "author").k
                  = "undefined"
           /\ ctx.literals[ctx.rootHashes[1]].value.class # "Identity"
    /\ ctx' = [ctx EXCEPT
                      !.objects = <<>>,
                      !.literals = Tampered(@, ctx.rootHashes[1], tamper),
                      !.rootHashes =
                          <<TamperedRoot(ctx.literals, ctx.rootHashes[1], tamper)>>]
    /\ outcome' = [op |-> "receive"]
    /\ UNCHANGED <<held, saved>>

\* await HashedObject.fromContextWithValidation(context, hash), no other call
\* on the context being under way, for a hash the context holds no object of
Validate(objHash) ==
    /\ objHash \notin DOMAIN ctx.objects
    /\ \E r \in {fromContextWithValidation(ctx, objHash)} :
           /\ ctx' = r.context
           /\ outcome' = [op |-> "validate", hash |-> objHash,
                          result |-> r.result, error |-> r.error,
                          something |-> r.something, before |-> ctx]
    /\ UNCHANGED <<held, saved>>

\* the application goes on with the object the context gave it
Load ==
    /\ outcome.op = "validate"
    /\ outcome.result = "resolved"
    /\ outcome.hash = ctx.rootHashes[1]
    /\ held' = outcome.something
    /\ ctx' = NewContext
    /\ outcome' = [op |-> "load"]
    /\ UNCHANGED saved

\* await store.save(object): the signature the store made is the object's
\* (the objects at hand hold no authored object below the root)
SaveObject ==
    /\ ctx.rootHashes = <<>>
    /\ \E r \in {saveLiteral(held, saved)} :
           /\ saved' = r.backend
           /\ held' = r.context.objects[r.context.rootHashes[1]]
           /\ outcome' = [op |-> "save", hash |-> r.context.rootHashes[1],
                          thrown |-> r.thrown, before |-> saved,
                          object |-> held]
    /\ UNCHANGED ctx

(***************************************************************************)
(*                    WATCH CALLBACKS THAT THROW                           *)
(*                                                                         *)
(* The store hands fireCallbacks to the backend as its stored-object       *)
(* callback.  Each callback is awaited inside the loops of fireCallbacks,  *)
(* outside of any try block: a callback that throws, or whose promise      *)
(* rejects, ends fireCallbacks at that call.                               *)
(***************************************************************************)
\* the callbacks an application registers
Watchers == {"cb1", "cb2"}

\* the calls made out of calls when the callbacks in throwing throw
RECURSIVE CallsUntilThrow(_, _)
CallsUntilThrow(calls, throwing) ==
    IF calls = <<>> THEN <<>>
    ELSE IF Head(calls)[1] \in throwing THEN <<Head(calls)>>
    ELSE <<Head(calls)>> \o CallsUntilThrow(Tail(calls), throwing)

\* the registrations made so far, in order (kept to state properties)
Registered == IF "registered" \in DOMAIN last THEN last.registered ELSE <<>>

Registers(table, key, callback) ==
    /\ Len(Registered) < MaxWatched
    /\ watches' # watches
    /\ last' = [op |-> "watch",
                registered |-> Append(Registered, [table |-> table, key |-> key,
                                                   callback |-> callback])]
    /\ UNCHANGED <<backend, unsaved, due>>

\* store.watchClass(className, callback)
RegisterClassWatch(className, callback) ==
    /\ watches' = [watches EXCEPT
                      !.classCallbacks = MultiMapAdd(@, className, callback)]
    /\ Registers("class", className, callback)

\* store.watchReferences(referringPath, referencedHash, callback)
RegisterReferencesWatch(reference, callback) ==
    /\ watches' = [watches EXCEPT
                      !.referencesCallbacks = MultiMapAdd(@, reference, callback)]
    /\ Registers("references", reference, callback)

\* store.watchClassReferences(referringClassName, referringPath,
\*                            referencedHash, callback)
RegisterClassReferencesWatch(classReference, callback) ==
    /\ watches' = [watches EXCEPT
                      !.classReferencesCallbacks =
                            MultiMapAdd(@, classReference, callback)]
    /\ Registers("classReferences", classReference, callback)

\* the backend persists the literal of hash and calls the stored-object
\* callback, async literal => await this.fireCallbacks(literal); the
\* callbacks in throwing throw when they are called
StoredObjectCallback(hash, throwing) ==
    /\ Registered # <<>>
    /\ last' = [op |-> "fire", registered |-> Registered, hash |-> hash,
                throwing |-> throwing,
                called |-> CallsUntilThrow(fireCallbacks(watches, hash), throwing)]
    /\ UNCHANGED <<backend, unsaved, watches, due>>

\* the (referringClassName, referringPath, referencedHash) triples an
\* application watches: what refers to the op o1
ClassReferences ==
    {[className |-> cls, path |-> path, hash |-> H("o1")] :
        cls \in {"MutationOp", "InvalidateAfterOp"},
        path \in {"targetOp", "causalOps"}}
(***************************************************************************)
(* Overlapping save() calls.  Each call runs from one await to the next in *)
(* one step: what it still has to do is a list of the awaits ahead of it,  *)
(* in order, each with the hash it is about.                               *)
(***************************************************************************)
Procs == {"p1", "p2"}

\* what each caller saves: an op caused by c, or an invalidation of c
Saves(p) ==
    IF p = "p1" THEN {H("o1"), H("o2")} ELSE {H("inv"), H("invT")}

\* what is saved before the callers start
Prepared == {"c", "o1", "t"}

Task(op, hash, arg) == [op |-> op, hash |-> hash, arg |-> arg]

NoCall ==
    [pc |-> "idle", hash |-> <<>>, context |-> {}, todo |-> <<>>,
     base |-> <<>>, overlaps |-> FALSE]

CallInit == inFlight = [p \in Procs |-> NoCall]

Awaiting(p, op) ==
    /\ inFlight[p].pc = "running"
    /\ inFlight[p].todo # <<>>
    /\ Head(inFlight[p].todo).op = op

\* the state record of the save steps, at the backend of the moment
AtBackend(p) ==
    [backend |-> backend, context |-> inFlight[p].context, unsaved |-> unsaved,
     stored |-> <<>>, fired |-> <<>>, err |-> NoError]

\* the call goes on with the tasks ahead of those it had behind the current one
GoesOn(p, ahead, context) ==
    inFlight' = [inFlight EXCEPT ![p].todo = ahead \o Tail(@), ![p].context = context]

\* the call throws
Throws(p) == inFlight' = [inFlight EXCEPT ![p].pc = "failed", ![p].todo = <<>>]

SaveTasks(hashes) ==
    [i \in 1..Len(hashes) |-> Task("saveWithContext", hashes[i], {})]

\* casc = CascadedInvalidateOp.create(op, inv); casc.toContext(context);
\* await this.saveWithContext(casc.getLastHash(), context), for each pair
CascadeTasks(pairs) ==
    [i \in 1..Len(pairs) |-> Task("saveWithContext", CascHash(pairs[i][1], pairs[i][2]), {})]

CascadeContext(pairs) ==
    UNION {toContext(CascHash(pairs[i][1], pairs[i][2])) : i \in 1..Len(pairs)}

\* Store.ts 226-334: what saveWithContext does once load() gave undefined
AfterLoad(hash) ==
    LET literals == SelectSeq(Dependencies(hash), LAMBDA d : d.type = "literal")
        causalOps == Objects[hash].causalOps
    IN  SaveTasks([i \in 1..Len(literals) |-> literals[i].hash])
        \o <<Task("store", hash, {})>>
        \o (IF IsMutationOp(hash)
            THEN [i \in 1..Len(causalOps) |->
                    Task("loadAllInvalidations", hash, {causalOps[i].hash})]
            ELSE <<>>)
        \o (IF getClassName(hash) \in InvalidationClasses
            THEN <<Task("loadAllConsequences", hash, {})>>
            ELSE <<>>)

\* store.save(object, false) is called
BeginSave(p, hash) ==
    /\ inFlight[p].pc = "idle"
    /\ inFlight' = [inFlight EXCEPT ![p] =
                    [pc |-> "running", hash |-> hash, context |-> toContext(hash),
                     todo |-> <<Task("findMissingReferences", hash, {})>>,
                     base |-> backend,
                     overlaps |-> \E q \in Procs : inFlight[q].pc = "running"]]
    /\ UNCHANGED storeVars

\* Store.ts 85-96
FindMissing(p) ==
    /\ Awaiting(p, "findMissingReferences")
    /\ \E found \in {findMissingReferencesWithContext(inFlight[p].hash, inFlight[p].context,
                                                       backend, "")} :
          IF found.mismatch \/ SomeMissing(found.missing)
          THEN Throws(p)
          ELSE GoesOn(p, SaveTasks(<<inFlight[p].hash>>), inFlight[p].context)
    /\ UNCHANGED storeVars

\* Store.ts 196-224: const loaded = await this.load(hash, false)
LoadForSave(p) ==
    /\ Awaiting(p, "saveWithContext")
    /\ LET hash == Head(inFlight[p].todo).hash
       IN  IF hash \notin inFlight[p].context THEN Throws(p)
           ELSE IF Loaded(backend, hash) THEN GoesOn(p, <<>>, inFlight[p].context)
           ELSE GoesOn(p, AfterLoad(hash), inFlight[p].context)
    /\ UNCHANGED storeVars

\* Store.ts 234-260: await this.backend.store(literal, history)
StoreLiteral(p) ==
    /\ Awaiting(p, "store")
    /\ \E st \in {storeWithHeader(Head(inFlight[p].todo).hash, AtBackend(p))} :
          IF st.err # NoError
          THEN Throws(p) /\ UNCHANGED storeVars
          ELSE /\ GoesOn(p, <<>>, inFlight[p].context)
               /\ backend' = st.backend
               /\ UNCHANGED <<unsaved, watches, last, due>>

\* Store.ts 270-289: await this.loadAllInvalidations(causalOp.getLastHash())
LoadInvalidations(p) ==
    /\ Awaiting(p, "loadAllInvalidations")
    /\ LET object == Head(inFlight[p].todo).hash
           causalOp == CHOOSE c \in Head(inFlight[p].todo).arg : TRUE
           invalidations == SeqOf(loadAllInvalidations(backend, causalOp))
           cascading == SelectSeq(invalidations, LAMBDA inv : shouldCascade(object, inv))
           pairs == [i \in 1..Len(cascading) |-> <<object, cascading[i]>>]
       IN  GoesOn(p, CascadeTasks(pairs), inFlight[p].context \cup CascadeContext(pairs))
    /\ UNCHANGED storeVars

\* Store.ts 302 and 324-330:
\* await this.loadAllConsequences(object.getTargetOp().hash())
LoadConsequences(p) ==
    /\ Awaiting(p, "loadAllConsequences")
    /\ LET object == Head(inFlight[p].todo).hash
           consequences == loadAllConsequences(backend, getTargetOp(object))
           pairs == [i \in 1..Cardinality(consequences) |->
                        <<SeqOf(consequences)[i], object>>]
       IN  IF getClassName(object) = "InvalidateAfterOp"
           THEN GoesOn(p, <<Task("loadPrevOpsClosure", object, consequences)>>,
                       inFlight[p].context)
           ELSE GoesOn(p, CascadeTasks(pairs), inFlight[p].context \cup CascadeContext(pairs))
    /\ UNCHANGED storeVars

\* Store.ts 308-322: await this.loadPrevOpsClosure(object.getTerminalOps())
LoadClosure(p) ==
    /\ Awaiting(p, "loadPrevOpsClosure")
    /\ LET object == Head(inFlight[p].todo).hash
           consequences == Head(inFlight[p].todo).arg
       IN  \E validConsequences \in {loadPrevOpsClosure(backend, getTerminalOps(object))} :
              IF validConsequences.failed THEN Throws(p)
              ELSE \E invalid \in {SeqOf(InvalidConsequences(consequences,
                                                             validConsequences.closure))} :
                      \E pairs \in {[i \in 1..Len(invalid) |-> <<invalid[i], object>>]} :
                          GoesOn(p, CascadeTasks(pairs),
                                 inFlight[p].context \cup CascadeContext(pairs))
    /\ UNCHANGED storeVars

\* save() returns: nothing is queued on the mutable objects, so that it has
\* no mutations to flush
Returns(p) ==
    /\ inFlight[p].pc = "running"
    /\ inFlight[p].todo = <<>>
    /\ inFlight' = [inFlight EXCEPT ![p].pc = "done"]
    /\ UNCHANGED storeVars

\* a save() that runs with no other call in flight, before the callers start
Prepare(hash) ==
    /\ \A p \in Procs : inFlight[p].pc = "idle"
    /\ hash \notin Stored(backend)
    /\ Save(hash, FALSE)
    /\ UNCHANGED inFlight
(***************************************************************************)
(* Overlapping calls of fromContextWithValidation on one context.  A call  *)
(* runs from one await to the next in one step.  What it has ahead is a    *)
(* stack of frames, one per nested call, the innermost first: the hash     *)
(* the frame is about, the await it stands at, the index of the dependency *)
(* it awaits and the object it rebuilt (a local of the function).          *)
(***************************************************************************)
Frame(objHash, at, i, obj) == [hash |-> objHash, at |-> at, i |-> i, obj |-> obj]

\* the call has returned or thrown
Settled(pc, something, error, context) ==
    [stack |-> <<>>, context |-> context, pc |-> pc, something |-> something,
     error |-> error]

\* the call stands at an await
Suspended(stack, context) ==
    [stack |-> stack, context |-> context, pc |-> "running",
     something |-> UndefinedValue, error |-> ""]

\* return obj: to the caller of the outermost frame, or to the frame that
\* awaits this one
ReturnsObject(rest, obj, context) ==
    IF rest = <<>> THEN Settled("resolved", obj, "", context)
    ELSE Suspended(rest, context)

\* an objects map that would only give out what has passed its checks
HasCheckedObject(context, objHash) == FALSE

\* HashedObject.ts 745: context.objects.has(hash)
HasObject(context, objHash) == objHash \in DOMAIN context.objects

\* HashedObject.ts 762-790, from the rebuilt object to the first await
rebuildAndCheck(top, rest, context) ==
    With(fromContext(context, top.hash), LAMBDA r :
        IF r.thrown THEN Settled("rejected", UndefinedValue, "Deliteralize", r.context)
        ELSE LET obj == r.something
                 literal == context.literals[top.hash]
             IN  IF hashOf(obj) # top.hash
                 THEN Settled("rejected", UndefinedValue, "WrongHash",
                              DeleteObject(r.context, top.hash))
                 ELSE IF Get(obj, "author").k = "undefined"
                 THEN Suspended(<<Frame(top.hash, "validate", top.i, obj)>> \o rest,
                                r.context)
                 ELSE IF ~literal.signature.defined
                 THEN Settled("rejected", UndefinedValue, "MissingSignature",
                              DeleteObject(r.context, top.hash))
                 ELSE IF verifySignature(Get(obj, "author"), top.hash,
                                         literal.signature) = "throws"
                 THEN Settled("rejected", UndefinedValue, "TypeError", r.context)
                 ELSE Suspended(<<Frame(top.hash, "verify", top.i, obj)>> \o rest,
                                r.context))

\* HashedObject.ts 735-792: the call runs on from its innermost frame until
\* it awaits or settles
RECURSIVE runFrame(_, _)
runFrame(stack, context) ==
    LET top == Head(stack)
        rest == Tail(stack)
        deps == context.literals[top.hash].dependencies
    IN  CASE top.at = "start" ->
                 IF HasObject(context, top.hash)
                 THEN ReturnsObject(rest, context.objects[top.hash], context)
                 ELSE IF top.hash \notin DOMAIN context.literals
                 THEN Settled("rejected", UndefinedValue, "MissingLiteral", context)
                 ELSE runFrame(<<Frame(top.hash, "deps", 1, UndefinedValue)>> \o rest,
                               context)
          [] top.at = "deps" ->
                 IF top.i > Len(deps) THEN rebuildAndCheck(top, rest, context)
                 ELSE IF deps[top.i].hash \in DOMAIN context.objects
                 THEN runFrame(<<Frame(top.hash, "deps", top.i + 1, UndefinedValue)>>
                                   \o rest, context)
                 ELSE runFrame(<<Frame(deps[top.i].hash, "start", 0, UndefinedValue),
                                 Frame(top.hash, "awaitDep", top.i, UndefinedValue)>>
                                   \o rest, context)
          [] top.at = "awaitDep" ->
                 runFrame(<<Frame(top.hash, "deps", top.i + 1, UndefinedValue)>>
                              \o rest, context)
          [] top.at = "verify" ->
                 IF verifySignature(Get(top.obj, "author"), top.hash,
                                    context.literals[top.hash].signature) = "false"
                 THEN Settled("rejected", UndefinedValue, "InvalidSignature",
                              DeleteObject(context, top.hash))
                 ELSE Suspended(<<Frame(top.hash, "validate", top.i, top.obj)>>
                                    \o rest, context)
          [] top.at = "validate" ->
                 IF validate(top.obj) = "false"
                 THEN Settled("rejected", UndefinedValue, "ValidationFailed",
                              DeleteObject(context, top.hash))
                 ELSE ReturnsObject(rest, top.obj, context)

\* a call of another caller has rebuilt the object of objHash and stands at
\* one of its two checks
UnderCheckBy(q, objHash) ==
    /\ inFlight[q].pc = "running"
    /\ \E k \in 1..Len(inFlight[q].todo) :
          /\ inFlight[q].todo[k].hash = objHash
          /\ inFlight[q].todo[k].at \in {"verify", "validate"}

\* HashedObject.fromContextWithValidation(context, objHash) is called by p
\* on the context that was received
CallValidation(p, objHash) ==
    /\ outcome.op = "receive"
    /\ inFlight[p].pc = "idle"
    /\ \E r \in {runFrame(<<Frame(objHash, "start", 0, UndefinedValue)>>, ctx)} :
          /\ ctx' = r.context
          /\ inFlight' = [inFlight EXCEPT ![p] =
                [pc |-> r.pc, hash |-> objHash, todo |-> r.stack,
                 something |-> r.something, error |-> r.error,
                 early |-> \E q \in Procs \ {p} : UnderCheckBy(q, objHash),
                 registered |-> IF objHash \in DOMAIN ctx.objects
                                THEN ctx.objects[objHash] ELSE UndefinedValue]]
    /\ UNCHANGED <<held, outcome, saved>>

\* the promise that the call of p awaits settles, and the call goes on
ResumeValidation(p) ==
    /\ outcome.op = "receive"
    /\ inFlight[p].pc = "running"
    /\ \E r \in {runFrame(inFlight[p].todo, ctx)} :
          /\ ctx' = r.context
          /\ inFlight' = [inFlight EXCEPT
                ![p].pc = r.pc, ![p].todo = r.stack,
                ![p].something = r.something, ![p].error = r.error]
    /\ UNCHANGED <<held, outcome, saved>>

(***************************************************************************)
(*                          SPECIFICATIONS                                 *)
(***************************************************************************)
Init == StreamInit /\ StoreInit /\ PeerInit /\ ObjectInit /\ FilterInit /\ CallInit /\ ClockInit

\* the streams run: no peer group agent is started, no object is worked on
Idle == Agents = {} /\ held = Note("hi")

StreamRunInit == Init /\ Idle

StreamSpec == StreamRunInit /\ [][StreamNext]_vars

\* the store runs: the stream source is the one built with no arguments
StoreRunInit == Init /\ ~src.maxBufferSize.defined /\ Idle

StoreSpec == StoreRunInit /\ [][StoreNext]_vars

\* one agent, at endpoint a, in an environment that does anything
AgentInit == Init /\ held = Note("hi") /\ ~src.maxBufferSize.defined
                  /\ peerSource = [a |-> <<"b", "c">>, b |-> <<>>, c |-> <<>>]

AgentNext ==
    \/ \E self \in Endpoints : Start(self) /\ UNCHANGED <<streamVars, storeVars, objVars, filterVars, callVars, timeVars>>
    \/ \E self \in Endpoints : Tick(self) /\ UNCHANGED <<streamVars, storeVars, objVars, filterVars, callVars, timeVars>>
    \/ \E self \in Endpoints : TickResumes(self) /\ UNCHANGED <<streamVars, storeVars, objVars, filterVars, callVars, timeVars>>
    \/ \E ev \in Deliverable : ConnectionStatusChange(ev, Taken(ev))
                             /\ UNCHANGED <<streamVars, storeVars, objVars, filterVars, callVars, timeVars>>
    \/ \E ev \in Deliverable : ConnectionIdentityAuth(ev, Taken(ev))
                             /\ UNCHANGED <<streamVars, storeVars, objVars, filterVars, callVars, timeVars>>
    \/ TimePasses /\ UNCHANGED <<streamVars, storeVars, objVars, filterVars, callVars, timeVars>>
    \/ \E self, ep \in Endpoints : RemoteListens(self, ep)
                                      /\ UNCHANGED <<streamVars, storeVars, objVars, filterVars, callVars, timeVars>>
    \/ \E self, ep \in Endpoints, connId \in ConnIds :
          RemoteConnects(self, ep, connId) /\ UNCHANGED <<streamVars, storeVars, objVars, filterVars, callVars, timeVars>>
    \/ \E self \in Endpoints, connId \in ConnIds :
          RemoteAccepts(self, connId) /\ UNCHANGED <<streamVars, storeVars, objVars, filterVars, callVars, timeVars>>
    \/ \E self \in Endpoints, connId \in ConnIds :
          RemoteCloses(self, connId) /\ UNCHANGED <<streamVars, storeVars, objVars, filterVars, callVars, timeVars>>
    \/ \E self \in Endpoints, connId \in ConnIds, type \in RemoteMessageTypes,
          kind \in RemoteMessageKinds :
          RemoteSends(self, connId, type, kind) /\ UNCHANGED <<streamVars, storeVars, objVars, filterVars, callVars, timeVars>>
    \/ \E self \in Endpoints, connId \in ConnIds,
          type \in {"ChooseConnection", "ConfirmChosenConnection"} :
          RemoteSelects(self, connId, type) /\ UNCHANGED <<streamVars, storeVars, objVars, filterVars, callVars, timeVars>>
    \/ \E self \in Endpoints, connId \in ConnIds :
          RemoteAuthenticates(self, connId) /\ UNCHANGED <<streamVars, storeVars, objVars, filterVars, callVars, timeVars>>

AgentSpec == AgentInit /\ [][AgentNext]_vars

\* two agents, at the endpoints a and b, each the candidate of the other,
\* on a transport that loses nothing
MeshInit == Init /\ held = Note("hi") /\ ~src.maxBufferSize.defined
                 /\ peerSource = [a |-> <<"b">>, b |-> <<"a">>, c |-> <<>>]

MeshNext ==
    \/ \E self \in Endpoints : Start(self) /\ UNCHANGED <<streamVars, storeVars, objVars, filterVars, callVars, timeVars>>
    \/ \E self \in Endpoints : Tick(self) /\ UNCHANGED <<streamVars, storeVars, objVars, filterVars, callVars, timeVars>>
    \/ \E self \in Endpoints : TickResumes(self) /\ UNCHANGED <<streamVars, storeVars, objVars, filterVars, callVars, timeVars>>
    \/ \E ev \in Deliverable : RemoteAddressListening(ev, Taken(ev))
                             /\ UNCHANGED <<streamVars, storeVars, objVars, filterVars, callVars, timeVars>>
    \/ \E ev \in Deliverable : ConnectionStatusChange(ev, Taken(ev))
                             /\ UNCHANGED <<streamVars, storeVars, objVars, filterVars, callVars, timeVars>>
    \/ \E ev \in Deliverable : MessageReceived(ev, Taken(ev))
                             /\ UNCHANGED <<streamVars, storeVars, objVars, filterVars, callVars, timeVars>>
    \/ \E ev \in Deliverable : ConnectionIdentityAuth(ev, Taken(ev))
                             /\ UNCHANGED <<streamVars, storeVars, objVars, filterVars, callVars, timeVars>>
    \/ \E ev \in Deliverable : SecureMessageReceived(ev, Taken(ev))
                             /\ UNCHANGED <<streamVars, storeVars, objVars, filterVars, callVars, timeVars>>
    \/ TimePassesQuietly /\ UNCHANGED <<streamVars, storeVars, objVars, filterVars, callVars, timeVars>>

MeshSpec == MeshInit /\ [][MeshNext]_vars

\* what the timer and the peer source of one pod do
Timers(self) ==
    (Start(self) \/ Tick(self) \/ TickResumes(self))
        /\ UNCHANGED <<streamVars, storeVars, objVars, filterVars, callVars, timeVars>>

\* what the pods do with the events raised: deliver them
Deliveries ==
    \E ev \in Deliverable :
        /\ \/ RemoteAddressListening(ev, Taken(ev))
           \/ ConnectionStatusChange(ev, Taken(ev))
           \/ MessageReceived(ev, Taken(ev))
           \/ ConnectionIdentityAuth(ev, Taken(ev))
           \/ SecureMessageReceived(ev, Taken(ev))
        /\ UNCHANGED <<streamVars, storeVars, objVars, filterVars, callVars, timeVars>>

\* the same mesh, where the timers of each pod keep firing, the peer sources
\* answer, the events raised are delivered and time goes on
MeshFairness ==
    /\ WF_vars(Timers("a"))
    /\ WF_vars(Timers("b"))
    /\ WF_vars(Deliveries)
    /\ WF_vars(TimePassesQuietly /\ UNCHANGED <<streamVars, storeVars, objVars, filterVars, callVars, timeVars>>)

MeshFairSpec == MeshInit /\ [][MeshNext]_vars /\ MeshFairness

\* one agent, at endpoint a, that is made ready in a pod that already holds
\* two open connections of the endpoint, and that is shut down at any time
PodInit == Init /\ held = Note("hi") /\ ~src.maxBufferSize.defined
                /\ peerSource = [a |-> <<"b", "c">>, b |-> <<>>, c |-> <<>>]

PodOpen == [net EXCEPT !["c1"] = [state |-> "open", ends |-> {"a", "b"}],
                       !["c2"] = [state |-> "open", ends |-> {"a", "c"}]]

\* the other agents of the pod open the connections
OthersConnect ==
    /\ \A connId \in ConnIds : net[connId].state = "none"
    /\ \A self \in Agents : ~agents[self].started
    /\ net' = PodOpen
    /\ UNCHANGED <<agents, secured, inbox, peerSource>>

PodNext ==
    \/ OthersConnect /\ UNCHANGED <<streamVars, storeVars, objVars, filterVars, callVars, timeVars>>
    \/ \E self \in Endpoints : Ready(self) /\ UNCHANGED <<streamVars, storeVars, objVars, filterVars, callVars, timeVars>>
    \/ \E self \in Endpoints : InitResumes(self) /\ UNCHANGED <<streamVars, storeVars, objVars, filterVars, callVars, timeVars>>
    \/ \E self \in Endpoints : Shutdown(self) /\ UNCHANGED <<streamVars, storeVars, objVars, filterVars, callVars, timeVars>>
    \/ \E self \in Endpoints : Tick(self) /\ UNCHANGED <<streamVars, storeVars, objVars, filterVars, callVars, timeVars>>
    \/ \E self \in Endpoints : TickResumes(self) /\ UNCHANGED <<streamVars, storeVars, objVars, filterVars, callVars, timeVars>>
    \/ \E self \in Endpoints : TickThrows(self) /\ UNCHANGED <<streamVars, storeVars, objVars, filterVars, callVars, timeVars>>
    \/ \E ev \in Deliverable : ConnectionStatusChange(ev, Taken(ev))
                             /\ UNCHANGED <<streamVars, storeVars, objVars, filterVars, callVars, timeVars>>
    \/ \E ev \in Deliverable : ConnectionIdentityAuth(ev, Taken(ev))
                             /\ UNCHANGED <<streamVars, storeVars, objVars, filterVars, callVars, timeVars>>
    \/ TimePasses /\ UNCHANGED <<streamVars, storeVars, objVars, filterVars, callVars, timeVars>>
    \/ \E self \in Endpoints, connId \in ConnIds :
          RemoteCloses(self, connId) /\ UNCHANGED <<streamVars, storeVars, objVars, filterVars, callVars, timeVars>>
    \/ \E self \in Endpoints, connId \in ConnIds, type \in RemoteMessageTypes,
          kind \in RemoteMessageKinds :
          RemoteSends(self, connId, type, kind) /\ UNCHANGED <<streamVars, storeVars, objVars, filterVars, callVars, timeVars>>
    \/ \E self \in Endpoints, connId \in ConnIds :
          RemoteAuthenticates(self, connId) /\ UNCHANGED <<streamVars, storeVars, objVars, filterVars, callVars, timeVars>>

PodSpec == PodInit /\ [][PodNext]_vars

\* one agent, at endpoint a, and a peer b that opens connection after
\* connection to it, negotiates each and then selects one of them
DedupInit == AgentInit

DedupNext ==
    \/ \E self \in Endpoints : Start(self) /\ UNCHANGED <<streamVars, storeVars, objVars, filterVars, callVars, timeVars>>
    \/ \E self \in Endpoints, connId \in AllConnIds :
          RemoteConnects(self, "b", connId) /\ UNCHANGED <<streamVars, storeVars, objVars, filterVars, callVars, timeVars>>
    \/ \E ev \in Deliverable : ConnectionStatusChange(ev, Taken(ev))
                             /\ UNCHANGED <<streamVars, storeVars, objVars, filterVars, callVars, timeVars>>
    \/ \E self \in Endpoints, connId \in AllConnIds :
          RemoteSends(self, connId, "PeeringOffer", "valid")
              /\ UNCHANGED <<streamVars, storeVars, objVars, filterVars, callVars, timeVars>>
    \/ \E self \in Endpoints, connId \in AllConnIds :
          RemoteAuthenticates(self, connId) /\ UNCHANGED <<streamVars, storeVars, objVars, filterVars, callVars, timeVars>>
    \/ \E ev \in Deliverable : ConnectionIdentityAuth(ev, Taken(ev))
                             /\ UNCHANGED <<streamVars, storeVars, objVars, filterVars, callVars, timeVars>>
    \/ \E self \in Endpoints, connId \in AllConnIds,
          type \in {"ChooseConnection", "ConfirmChosenConnection"} :
          RemoteSelects(self, connId, type) /\ UNCHANGED <<streamVars, storeVars, objVars, filterVars, callVars, timeVars>>

DedupSpec == DedupInit /\ [][DedupNext]_vars

\* one agent, at endpoint a, the peer b that connects to it and negotiates,
\* the ticks of the agent, and a peer source that forgets a peer
ForgetNext ==
    \/ \E self \in Endpoints : Start(self) /\ UNCHANGED <<streamVars, storeVars, objVars, filterVars, callVars, timeVars>>
    \/ \E self \in Endpoints : Tick(self) /\ UNCHANGED <<streamVars, storeVars, objVars, filterVars, callVars, timeVars>>
    \/ \E self \in Endpoints : TickResumes(self) /\ UNCHANGED <<streamVars, storeVars, objVars, filterVars, callVars, timeVars>>
    \/ \E self \in Endpoints, connId \in ConnIds :
          RemoteConnects(self, "b", connId) /\ UNCHANGED <<streamVars, storeVars, objVars, filterVars, callVars, timeVars>>
    \/ \E ev \in Deliverable : ConnectionStatusChange(ev, Taken(ev))
                             /\ UNCHANGED <<streamVars, storeVars, objVars, filterVars, callVars, timeVars>>
    \/ \E self \in Endpoints, connId \in ConnIds :
          RemoteSends(self, connId, "PeeringOffer", "valid")
              /\ UNCHANGED <<streamVars, storeVars, objVars, filterVars, callVars, timeVars>>
    \/ \E self \in Endpoints, connId \in ConnIds :
          RemoteAuthenticates(self, connId) /\ UNCHANGED <<streamVars, storeVars, objVars, filterVars, callVars, timeVars>>
    \/ \E ev \in Deliverable : ConnectionIdentityAuth(ev, Taken(ev))
                             /\ UNCHANGED <<streamVars, storeVars, objVars, filterVars, callVars, timeVars>>
    \/ \E self, ep \in Endpoints :
          PeerSourceForgets(self, ep) /\ UNCHANGED <<streamVars, storeVars, objVars, filterVars, callVars, timeVars>>
    \/ TimePasses /\ UNCHANGED <<streamVars, storeVars, objVars, filterVars, callVars, timeVars>>

ForgetSpec == AgentInit /\ [][ForgetNext]_vars

\* one agent, at endpoint a, that finds the played endpoints listening at
\* the times of a clock, and connections that close
AttemptNext ==
    \/ \E self \in Endpoints : Start(self) /\ UNCHANGED <<streamVars, storeVars, objVars, filterVars, callVars, timeVars>>
    \/ \E self, ep \in Endpoints :
          RemoteListensAt(self, ep) /\ UNCHANGED <<streamVars, storeVars, objVars, filterVars, callVars, timeVars>>
    \/ \E self \in Endpoints, connId \in ConnIds :
          RemoteCloses(self, connId) /\ UNCHANGED <<streamVars, storeVars, objVars, filterVars, callVars, timeVars>>
    \/ \E ev \in Deliverable : ConnectionStatusChange(ev, Taken(ev))
                             /\ UNCHANGED <<streamVars, storeVars, objVars, filterVars, callVars, timeVars>>
    \/ \E d \in ClockSteps : ClockAdvances(d) /\ UNCHANGED <<streamVars, storeVars, peerVars, objVars, filterVars, callVars>>

AttemptSpec == AgentInit /\ [][AttemptNext]_vars

\* one agent, at endpoint a, and the peer b that connects to it as one
\* instance or another, negotiates, and closes its connections
PinNext ==
    \/ \E self \in Endpoints : Start(self) /\ UNCHANGED <<streamVars, storeVars, objVars, filterVars, callVars, timeVars>>
    \/ \E self \in Endpoints, connId \in ConnIds, instance \in InstancesOf("b") :
          RemoteConnectsAs(self, "b", connId, instance)
              /\ UNCHANGED <<streamVars, storeVars, objVars, filterVars, callVars, timeVars>>
    \/ \E ev \in Deliverable : ConnectionStatusChange(ev, Taken(ev))
                             /\ UNCHANGED <<streamVars, storeVars, objVars, filterVars, callVars, timeVars>>
    \/ \E self \in Endpoints, connId \in ConnIds :
          RemoteSends(self, connId, "PeeringOffer", "valid")
              /\ UNCHANGED <<streamVars, storeVars, objVars, filterVars, callVars, timeVars>>
    \/ \E self \in Endpoints, connId \in ConnIds :
          RemoteAuthenticates(self, connId) /\ UNCHANGED <<streamVars, storeVars, objVars, filterVars, callVars, timeVars>>
    \/ \E ev \in Deliverable : ConnectionIdentityAuth(ev, Taken(ev))
                             /\ UNCHANGED <<streamVars, storeVars, objVars, filterVars, callVars, timeVars>>
    \/ \E self \in Endpoints, connId \in ConnIds :
          RemoteCloses(self, connId) /\ UNCHANGED <<streamVars, storeVars, objVars, filterVars, callVars, timeVars>>

PinSpec == AgentInit /\ [][PinNext]_vars

\* the same, where the events raised for the agent are delivered
PinDeliveries ==
    /\ \E ev \in Deliverable : \/ ConnectionStatusChange(ev, Taken(ev))
                               \/ ConnectionIdentityAuth(ev, Taken(ev))
    /\ UNCHANGED <<streamVars, storeVars, objVars, filterVars, callVars, timeVars>>

PinFairSpec == AgentInit /\ [][PinNext]_vars /\ WF_vars(PinDeliveries)

\* one held and one ctx, worked on by one caller at a time
ObjectRunInit == Init /\ ~src.maxBufferSize.defined /\ Agents = {}

ObjectNext ==
    \/ \E x \in Ids : SetId(x) /\ UNCHANGED <<streamVars, storeVars, peerVars, filterVars, callVars, timeVars>>
    \/ \E f \in {"first", "second"}, x \in ChildIds :
           SetChildId(f, x) /\ UNCHANGED <<streamVars, storeVars, peerVars, filterVars, callVars, timeVars>>
    \/ SetAuthor(Alice) /\ UNCHANGED <<streamVars, storeVars, peerVars, filterVars, callVars, timeVars>>
    \/ \E key \in {"ka"} : Sign(key) /\ UNCHANGED <<streamVars, storeVars, peerVars, filterVars, callVars, timeVars>>
    \/ ToContext /\ UNCHANGED <<streamVars, storeVars, peerVars, filterVars, callVars, timeVars>>
    \/ Clone /\ UNCHANGED <<streamVars, storeVars, peerVars, filterVars, callVars, timeVars>>
    \/ \E tamper \in Tampers :
           Receive(tamper) /\ UNCHANGED <<streamVars, storeVars, peerVars, filterVars, callVars, timeVars>>
    \/ \E objHash \in DOMAIN ctx.literals :
           Validate(objHash) /\ UNCHANGED <<streamVars, storeVars, peerVars, filterVars, callVars, timeVars>>
    \/ Load /\ UNCHANGED <<streamVars, storeVars, peerVars, filterVars, callVars, timeVars>>
    \/ SaveObject /\ UNCHANGED <<streamVars, storeVars, peerVars, filterVars, callVars, timeVars>>

ObjectSpec == ObjectRunInit /\ [][ObjectNext]_vars

\* two callers validate hashes of one received context, their calls
\* interleaved at the awaits
ReentryInit ==
    /\ ObjectRunInit
    /\ held \in {Note("hi"), Note(""), Folder(Note("hi"), Note("hi"), UndefinedValue)}

ReentryNext ==
    \/ SetAuthor(Alice) /\ UNCHANGED <<streamVars, storeVars, peerVars, filterVars, callVars, timeVars>>
    \/ \E key \in {"ka"} : Sign(key) /\ UNCHANGED <<streamVars, storeVars, peerVars, filterVars, callVars, timeVars>>
    \/ ToContext /\ UNCHANGED <<streamVars, storeVars, peerVars, filterVars, callVars, timeVars>>
    \/ \E tamper \in Tampers :
           Receive(tamper) /\ UNCHANGED <<streamVars, storeVars, peerVars, filterVars, callVars, timeVars>>
    \/ \E p \in Procs : \E objHash \in DOMAIN ctx.literals :
           CallValidation(p, objHash) /\ UNCHANGED <<streamVars, storeVars, peerVars, filterVars, timeVars>>
    \/ \E p \in Procs :
           ResumeValidation(p) /\ UNCHANGED <<streamVars, storeVars, peerVars, filterVars, timeVars>>

ReentrySpec == ReentryInit /\ [][ReentryNext]_vars

\* the store's watches: callbacks are registered, literals are persisted
WatchNext ==
    \/ \E className \in WatchedClasses \cup {"MutationOp"}, cb \in Watchers :
          RegisterClassWatch(className, cb)
              /\ UNCHANGED <<streamVars, peerVars, objVars, filterVars, callVars, timeVars>>
    \/ \E reference \in WatchedReferences, cb \in Watchers :
          RegisterReferencesWatch(reference, cb)
              /\ UNCHANGED <<streamVars, peerVars, objVars, filterVars, callVars, timeVars>>
    \/ \E classReference \in WatchedClassReferences, cb \in Watchers :
          RegisterClassReferencesWatch(classReference, cb)
              /\ UNCHANGED <<streamVars, peerVars, objVars, filterVars, callVars, timeVars>>
    \/ \E n \in Names, throwing \in SUBSET Watchers :
          StoredObjectCallback(H(n), throwing)
              /\ UNCHANGED <<streamVars, peerVars, objVars, filterVars, callVars, timeVars>>

WatchSpec == StoreRunInit /\ [][WatchNext]_vars

\* the filtered source: the application subscribes and unsubscribes its
\* callbacks while the upstream source ingests items and ends
FilterNext ==
    \/ Ingest /\ UNCHANGED <<storeVars, peerVars, objVars, callVars, timeVars>>
    \/ End /\ UNCHANGED <<storeVars, peerVars, objVars, callVars, timeVars>>
    \/ \E cb \in Subscribers :
          SubscribeNewItem(cb) /\ UNCHANGED <<storeVars, peerVars, objVars, callVars, timeVars>>
    \/ \E cb \in Subscribers :
          SubscribeEnd(cb) /\ UNCHANGED <<storeVars, peerVars, objVars, callVars, timeVars>>
    \/ \E cb \in Subscribers :
          UnsubscribeNewItem(cb) /\ UNCHANGED <<storeVars, peerVars, objVars, callVars, timeVars>>
    \/ \E cb \in Subscribers :
          UnsubscribeEnd(cb) /\ UNCHANGED <<storeVars, peerVars, objVars, callVars, timeVars>>

FilterSpec == StreamRunInit /\ [][FilterNext]_vars

\* two callers save an op and an invalidation on one store, their calls
\* interleaved at the awaits
RaceNext ==
    \/ \E n \in Prepared : Prepare(H(n)) /\ UNCHANGED <<streamVars, peerVars, objVars, filterVars, timeVars>>
    \/ \E p \in Procs : \E hash \in Saves(p) :
          BeginSave(p, hash) /\ UNCHANGED <<streamVars, peerVars, objVars, filterVars, timeVars>>
    \/ \E p \in Procs : FindMissing(p) /\ UNCHANGED <<streamVars, peerVars, objVars, filterVars, timeVars>>
    \/ \E p \in Procs : LoadForSave(p) /\ UNCHANGED <<streamVars, peerVars, objVars, filterVars, timeVars>>
    \/ \E p \in Procs : StoreLiteral(p) /\ UNCHANGED <<streamVars, peerVars, objVars, filterVars, timeVars>>
    \/ \E p \in Procs : LoadInvalidations(p) /\ UNCHANGED <<streamVars, peerVars, objVars, filterVars, timeVars>>
    \/ \E p \in Procs : LoadConsequences(p) /\ UNCHANGED <<streamVars, peerVars, objVars, filterVars, timeVars>>
    \/ \E p \in Procs : LoadClosure(p) /\ UNCHANGED <<streamVars, peerVars, objVars, filterVars, timeVars>>
    \/ \E p \in Procs : Returns(p) /\ UNCHANGED <<streamVars, peerVars, objVars, filterVars, timeVars>>

RaceSpec == StoreRunInit /\ [][RaceNext]_vars

\* the store with no watch, and the op whose prevOps refer to an object that
\* is stored with no op header
HeaderNext ==
    \/ \E n \in Names \cup {Unheaded}, saveMutations \in BOOLEAN :
          Save(H(n), saveMutations) /\ UNCHANGED <<streamVars, peerVars, objVars, filterVars, callVars, timeVars>>
    \/ \E m \in {H("m1"), H("m2")}, op \in AppliedOps :
          applyNewOp(m, op) /\ UNCHANGED <<streamVars, peerVars, objVars, filterVars, callVars, timeVars>>

HeaderSpec == StoreRunInit /\ [][HeaderNext]_vars

\* the store with no watch, and the object that nests an invalidation ahead
\* of the op it refers to
BundleNext ==
    \/ \E n \in {"c", "o1", "o2", "t", "inv", "invT", Bundle}, saveMutations \in BOOLEAN :
          Save(H(n), saveMutations) /\ UNCHANGED <<streamVars, peerVars, objVars, filterVars, callVars, timeVars>>
    \/ \E m \in {H("m1"), H("m2")}, op \in AppliedOps :
          applyNewOp(m, op) /\ UNCHANGED <<streamVars, peerVars, objVars, filterVars, callVars, timeVars>>

BundleSpec == StoreRunInit /\ [][BundleNext]_vars

\* the class+reference watches alone: triples are watched, literals are
\* persisted
ClassRefNext ==
    \/ \E classReference \in ClassReferences, cb \in Watchers :
          RegisterClassReferencesWatch(classReference, cb)
              /\ UNCHANGED <<streamVars, peerVars, objVars, filterVars, callVars, timeVars>>
    \/ \E n \in Names, throwing \in SUBSET Watchers :
          StoredObjectCallback(H(n), throwing)
              /\ UNCHANGED <<streamVars, peerVars, objVars, filterVars, callVars, timeVars>>

ClassRefSpec == StoreRunInit /\ [][ClassRefNext]_vars

(***************************************************************************)
(*                      PROPERTIES: ASYNC STREAMS                          *)
(***************************************************************************)

C7_NoCallLeftPendingAfterEnd ==
    \A k \in Consumers, i \in CallIds :
        (promise[k][i].st = "pending" /\ sghost.ended) => promise[k][i].timer

\* C8: the source's buffer holds the most recently ingested items, in
\* ingestion order, and never more than maxBufferSize of them.
C8_BufferHoldsMostRecent ==
    LET n == IF src.maxBufferSize.defined /\ src.maxBufferSize.n < sghost.ingested
             THEN src.maxBufferSize.n ELSE sghost.ingested
    IN  src.buffer = [i \in 1..n |-> sghost.ingested - n + i]

(***************************************************************************)
(*                       PROPERTIES: STORE                                 *)
(***************************************************************************)
Invalidations == {h \in Stored(backend) :
                    getClassName(h) \in {"InvalidateAfterOp", "CascadedInvalidateOp"}}

\* C1: after any save, for every stored op o and every stored invalidation
\* inv whose target op is one of the causal ops of o, and that invalidates o
\* (o is not among the ops an InvalidateAfterOp leaves valid), the backend
\* holds CascadedInvalidateOp(o, inv)
C1_CascadeClosure ==
    \A o \in Stored(backend), inv \in Invalidations :
        ( /\ IsMutationOp(o)
          /\ getTargetOp(inv) \in getCausalOps(o)
          /\ ~ ( /\ getClassName(inv) = "InvalidateAfterOp"
                 /\ o \in PrevOpsClosure(getTerminalOps(inv)) ) )
        => CascHash(o, inv) \in Stored(backend)

\* C2: when an InvalidateAfterOp inv is saved after an op o that has the
\* target op of inv among its causal ops and lies outside the prevOps-closure
\* of the terminal ops of inv, the backend holds CascadedInvalidateOp(o, inv),
\* stored by exactly one store() call, whatever is saved afterwards
C2_OneCascadePerInvalidatedOp ==
    \A pair \in due :
        /\ CascHash(pair[1], pair[2]) \in Stored(backend)
        /\ backend[CascHash(pair[1], pair[2])].n = 1

\* o and inv were saved in that order, and one of them has just been saved again
C2_Witness ==
    \E pair \in due :
        /\ last.wasDue
        /\ last.wasStored
        /\ last.err = NoError
        /\ CascHash(pair[1], pair[2]) \in Stored(backend)

\* C9 as claimed: a save of an object with a dependency that is neither in
\* its context nor in the backend fails with the missing-references error,
\* stores nothing and fires no callback
C9_MissingDependenciesError ==
    last.missing # {} =>
        /\ last.err = "missingReferences"
        /\ last.stored = <<>>
        /\ last.fired = <<>>

\* C9: a save of an object with a dependency that is neither in its context
\* nor in the backend fails, stores nothing and fires no callback; the error
\* is the class-mismatch error if another dependency is at hand under a class
\* other than the declared one, and the missing-references error otherwise
C9_MissingDependenciesRefuseSave ==
    last.missing # {} =>
        /\ last.err = IF last.mismatch THEN "classMismatch" ELSE "missingReferences"
        /\ last.stored = <<>>
        /\ last.fired = <<>>

\* a save was refused for missing references while a callback was registered
\* and the backend held objects
C9_Witness ==
    /\ last.missing # {}
    /\ last.err = "missingReferences"
    /\ NumWatches > 0
    /\ Stored(backend) # {}

\* C10 as claimed: a save of an object whose hash is in the backend calls
\* backend.store for nothing and fires no callback
C10_ResaveIsNoOp ==
    last.wasStored => (last.stored = <<>> /\ last.fired = <<>>)

\* C10: a save of an object whose hash is in the backend does not store the
\* object again, and stores nothing and fires no callback at all unless it
\* flushes the queued ops of a mutable object
C10_ResaveStoresOnlyQueuedOps ==
    last.wasStored =>
        /\ \A h \in Stored(backend) : backend[h].n = 1
        /\ ~last.flushed => (last.stored = <<>> /\ last.fired = <<>>)

\* a stored object was saved again, with nothing to flush, while a callback
\* was registered
C10_Witness ==
    /\ last.wasStored
    /\ last.err = NoError
    /\ ~last.flushed
    /\ NumWatches > 0

(***************************************************************************)
(*                     PROPERTIES: PEER GROUP AGENT                        *)
(***************************************************************************)
ReadyConnections(ag) ==
    {connId \in DOMAIN ag.connections : ag.connections[connId].status = "Ready"}

\* C4, as claimed: in every reachable state of an agent the number of
\* connections in status Ready is at most maxPeers.
C4_ReadyConnectionsAtMostMaxPeers ==
    \A self \in Agents :
        Cardinality(ReadyConnections(agents[self])) <= maxPeers

\* C4, as the code has it: in every reachable state of an agent the number
\* of endpoints it tracks connections to, and with it the number of peers
\* that getPeers() lists, is at most maxPeers (for minPeers <= maxPeers);
\* one endpoint may hold several Ready connections until they are
\* deduplicated.
C4_PeersAtMostMaxPeers ==
    \A self \in Agents :
        /\ Cardinality(DOMAIN agents[self].connectionsPerEndpoint) <= maxPeers
        /\ Cardinality(getPeers(agents[self])) <= maxPeers

\* an agent with maxPeers peers has declined the connection that one more
\* endpoint asked for
C4_Witness ==
    \E self \in Agents, connId \in ConnIds :
        /\ Cardinality(getPeers(agents[self])) = maxPeers
        /\ net[connId].state = "requested"
        /\ self \in net[connId].ends
        /\ OtherEnd(connId, self) \notin DOMAIN agents[self].connectionsPerEndpoint
        /\ ~MapHas(agents[self].connections, connId)
        /\ inbox[<<self, connId>>] = <<>>

\* the two agents of the mesh hold two Ready connections to each other
Duplicated ==
    \A self \in Agents :
        /\ ReadyConnections(agents[self]) = ConnIds
        /\ \A connId \in ConnIds : checkConnection(connId)

\* both agents keep the connection connId, Ready, and nothing else, and
\* every other connection is released
KeepOnly(connId) ==
    /\ checkConnection(connId)
    /\ \A self \in Agents :
          /\ DOMAIN agents[self].connections = {connId}
          /\ agents[self].connections[connId].status = "Ready"
          /\ agents[self].connectionsPerEndpoint =
                 [ep \in {OtherEnd(connId, self)} |-> <<connId>>]
    /\ \A other \in ConnIds \ {connId} : net[other].state = "closed"

\* the lexicographically smallest of the connection ids
SmallestConnId == CHOOSE x \in ConnIds : \A y \in ConnIds : Rank(x) <= Rank(y)

\* C3: once the two agents hold two Ready connections to each other, they
\* end up, whatever the order of their ticks and of the deliveries of
\* ChooseConnection and ConfirmChosenConnection, keeping the same single
\* connection, the one with the smallest id, every other one released.
C3_ConvergeOnSmallestConnId ==
    Duplicated ~> [](KeepOnly(SmallestConnId))

\* the two agents have deduplicated their connections
C3_Witness ==
    /\ KeepOnly(SmallestConnId)
    /\ \E self \in Agents :
          \E ep \in DOMAIN agents[self].chosenForDeduplication :
              agents[self].chosenForDeduplication[ep] = SmallestConnId
    /\ inbox = NoEvents

Candidates(self) == Range(peerSource[self]) \ {self}

\* C5: with candidates that are online and accept peering, and no failure,
\* each agent eventually holds Ready connections to at least
\* min(minPeers, number of candidates) peers; the two agents of the mesh
\* eventually list each other in getPeers().
C5_EventuallyEnoughPeers ==
    <>(\A self \in Agents :
          /\ Cardinality(getPeers(agents[self])) >=
                 (IF minPeers < Cardinality(Candidates(self))
                  THEN minPeers ELSE Cardinality(Candidates(self)))
          /\ Cardinality(Agents) = 2 => Agents \ {self} \subseteq getPeers(agents[self]))

\* each of the two agents lists the other in getPeers()
C5_Witness ==
    /\ Cardinality(Agents) = 2
    /\ \A self \in Agents : getPeers(agents[self]) = Agents \ {self}

\* what C13 wants of an offer that arrives at self over connId, in the state
\* it arrives in: kind tells whether it names this group and the identity
\* the peer source declares
OfferIsAcceptable(self, connId, kind) ==
    LET st == Handling(agents[self])
        remote == OtherEnd(connId, self)
    IN  /\ kind = "valid"
        /\ IF MapHas(st.ag.connections, connId)
           THEN /\ st.ag.connections[connId].status \in {"WaitingForOffer", "OfferSent"}
                /\ remote = st.ag.connections[connId].peer
                /\ checkConnectionRemoteInstance(st, self, connId)
           ELSE shouldAcceptPeerConnection(st, self, connId,
                                           getPeerForEndpoint(self, remote))

\* the connection is tracked as one whose offer was accepted
OfferAccepted(ag, connId) ==
    /\ MapHas(ag.connections, connId)
    /\ ag.connections[connId].status \in {"OfferAccepted", "Ready"}

\* C13: an offer received over a connection is accepted (the connection
\* moves to OfferAccepted or Ready) if and only if it names the agent's own
\* peer group and the identity hash the peer source declares, the connection
\* is in WaitingForOffer or OfferSent with the recorded peer at its other
\* end (or is untracked and shouldAcceptPeerConnection holds), and the
\* instance-pin check passes; in every other case the connection is no
\* longer tracked.
C13_AcceptsOnlyValidOffers ==
    [][\A self \in Endpoints, connId \in ConnIds, kind \in RemoteMessageKinds :
          RemoteSends(self, connId, "PeeringOffer", kind) =>
              IF OfferIsAcceptable(self, connId, kind)
              THEN OfferAccepted(agents'[self], connId)
              ELSE ~MapHas(agents'[self].connections, connId)]_vars


\* C16: at most one tick body of an agent is being executed at any time, and
\* the lock is held exactly while one is: a timer that fires during a tick
\* starts no second body, and a tick that finishes or throws leaves the lock
\* free for the ticks after it.
C16_OneTickBodyAtATime ==
    \A self \in Agents :
        /\ agents[self].ticking <= 1
        /\ (agents[self].tickLock = "held") <=> (agents[self].ticking = 1)

\* a tick is awaiting its peer source, with the timer set, after an earlier
\* tick of the agent threw
C16_Witness ==
    \E self \in Agents :
        /\ agents[self].tickThrew
        /\ agents[self].tickTimerRef # Undefined
        /\ agents[self].ticking = 1

\* C16, the skipped cycle: a timer that fires while the lock is held changes
\* nothing
C16_HeldLockSkipsTheCycle ==
    [][\A self \in Agents :
          (agents[self].tickLock = "held" /\ Tick(self)) => UNCHANGED peerVars]_vars

\* C17: once shutdown() has returned the tick timer of the agent is not set,
\* so no periodic tick runs any more, whenever shutdown() was called after
\* ready().
C17_NoTimerAfterShutdown ==
    \A self \in Agents :
        agents[self].shutdownReturned => agents[self].tickTimerRef = Undefined

\* C17, as steps: no timer fires into a tick body once shutdown() returned
C17_NoTickAfterShutdown ==
    [][\A self \in Agents :
          (agents[self].shutdownReturned /\ Tick(self)) => UNCHANGED peerVars]_vars

\* C17, the part that holds: a shutdown() called once init() has finished
\* leaves no timer, and shutdown() on an agent already shut down changes
\* nothing
C17_ShutdownAfterInitIsFinal ==
    [][\A self \in Agents :
          (Shutdown(self) /\ agents[self].initPending = <<>>)
              => /\ agents'[self].tickTimerRef = Undefined
                 /\ (agents[self].shutdownReturned
                        /\ agents[self].tickTimerRef = Undefined
                            => UNCHANGED peerVars)]_vars

\* C15: when the transport of a Ready connection is dead and the agent
\* removes the connection, the peer is announced lost unless it still is in
\* getPeers(): no peer stays announced that is not a peer any more.
C15_DeadReadyConnectionLosesPeer ==
    [][\A self \in Agents, connId \in ConnIds :
          (/\ MapHas(agents[self].connections, connId)
           /\ agents[self].connections[connId].status = "Ready"
           /\ ~checkConnection(connId)
           /\ ~MapHas(agents'[self].connections, connId))
              => \/ agents[self].connections[connId].peer \in getPeers(agents'[self])
                 \/ agents[self].connections[connId].peer
                        \notin agents'[self].announced]_vars

\* C15, the removal alone: a Ready connection whose transport is dead is
\* removed, and its peer is out of getPeers(), once the Closed event is
\* delivered or a tick has run
C15_DeadReadyConnectionIsRemoved ==
    [][\A self \in Agents, connId \in ConnIds :
          (/\ MapHas(agents[self].connections, connId)
           /\ agents[self].connections[connId].status = "Ready"
           /\ ~checkConnection(connId)
           /\ \/ Tick(self) /\ acquire(agents[self].tickLock)
              \/ \E ev \in Deliverable :
                    /\ ev.to = self /\ ev.connId = connId /\ ev.type = "Closed"
                    /\ ConnectionStatusChange(ev, Taken(ev)))
              => ~MapHas(agents'[self].connections, connId)]_vars

\* C15, as states: the peers announced and not announced lost are the ones
\* in getPeers()
C15_AnnouncedAreThePeers ==
    \A self \in Agents : agents[self].announced = getPeers(agents[self])

\* the agent accepts a connection selection for connId: the connection is
\* Ready and working, and the agent has proposed no smaller one
AcceptsSelection(ag, connId) ==
    /\ MapHas(ag.connections, connId)
    /\ ag.connections[connId].status = "Ready"
    /\ checkConnection(connId)
    /\ \/ ~MapHas(ag.chosenForDeduplication, ag.connections[connId].peer)
       \/ Rank(connId) <= Rank(ag.chosenForDeduplication[ag.connections[connId].peer])

\* C21: after the agent accepts a ChooseConnection or ConfirmChosenConnection
\* for a connection, that connection is the only one it tracks for the
\* endpoint.
C21_ChosenIsTheOnlyConnection ==
    [][\A self \in Agents, connId \in AllConnIds,
          type \in {"ChooseConnection", "ConfirmChosenConnection"} :
          (AcceptsSelection(agents[self], connId) /\ RemoteSelects(self, connId, type))
              => \A other \in AllConnIds \ {connId} :
                    ~MapHas(agents'[self].connections, other)]_vars
\* the status of the connection connId changes in this step, from one
\* status to the other, while self keeps tracking it
StatusChanges(self, connId, from, to) ==
    /\ MapHas(agents[self].connections, connId)
    /\ MapHas(agents'[self].connections, connId)
    /\ agents[self].connections[connId].status = from
    /\ agents'[self].connections[connId].status = to
    /\ from # to

HandshakeEdges ==
    {<<"Connecting", "OfferSent">>, <<"ReceivingConnection", "WaitingForOffer">>,
     <<"WaitingForOffer", "OfferAccepted">>, <<"OfferSent", "OfferAccepted">>,
     <<"OfferAccepted", "Ready">>}

\* an offer or an accepting reply that arrives on a channel already secured
\* makes the connection Ready at once
SecuredEdges == {<<"WaitingForOffer", "Ready">>, <<"OfferSent", "Ready">>}

\* this step handles the authentication of an identity on connId for self
IdentityAuthStep(self, connId) ==
    \/ RemoteAuthenticates(self, connId)
    \/ \E ev \in Deliverable :
          /\ ev.to = self
          /\ ev.connId = connId
          /\ ConnectionIdentityAuth(ev, Taken(ev))

\* C22 as stated: the status of a tracked connection only moves along
\* Connecting -> OfferSent, ReceivingConnection -> WaitingForOffer,
\* WaitingForOffer | OfferSent -> OfferAccepted and OfferAccepted -> Ready,
\* the last only when an identity authentication is handled; the status of
\* a Ready connection never changes.
C22_OnlyHandshakeEdges ==
    [][\A self \in Agents, connId \in AllConnIds, from \in Statuses, to \in Statuses :
          StatusChanges(self, connId, from, to)
              => /\ <<from, to>> \in HandshakeEdges
                 /\ to = "Ready" => IdentityAuthStep(self, connId)]_vars

\* C22 amended: the status of a tracked connection only moves along the
\* handshake edges or, when the channel of the connection is already secured
\* as the offer or the accepting reply is handled, from WaitingForOffer or
\* OfferSent straight to Ready; OfferAccepted -> Ready only happens when an
\* identity authentication is handled, and the status of a Ready connection
\* never changes.
C22_HandshakeOrSecuredEdges ==
    [][\A self \in Agents, connId \in AllConnIds, from \in Statuses, to \in Statuses :
          StatusChanges(self, connId, from, to)
              => \/ /\ <<from, to>> \in HandshakeEdges
                    /\ to = "Ready" => IdentityAuthStep(self, connId)
                 \/ /\ <<from, to>> \in SecuredEdges
                    /\ <<self, connId>> \in secured]_vars

\* a tracked connection waits for its offer, or for the reply to its offer,
\* on a channel that is already secured
C22_Witness ==
    \E self \in Agents, connId \in AllConnIds :
        /\ MapHas(agents[self].connections, connId)
        /\ agents[self].connections[connId].status \in {"WaitingForOffer", "OfferSent"}
        /\ <<self, connId>> \in secured
        /\ net[connId].state = "open"
\* the connection connId of self is set to Ready in this step
BecomesReady(self, connId) ==
    /\ MapHas(agents'[self].connections, connId)
    /\ agents'[self].connections[connId].status = "Ready"
    /\ \/ ~MapHas(agents[self].connections, connId)
       \/ agents[self].connections[connId].status # "Ready"

C27_PeersMatchEvents ==
    [][\A self \in Agents :
          /\ agents'[self].announced = getPeers(agents'[self])
          /\ \A connId \in AllConnIds :
                BecomesReady(self, connId)
                    => agents'[self].connections[connId].peer
                           \notin getPeers(agents[self])]_vars

\* the last part of C27 alone: a connection becomes Ready, and NewPeer is
\* broadcast for its peer, only when the peer is not in getPeers() yet
C27_NewPeerOnlyForNewPeers ==
    [][\A self \in Agents, connId \in AllConnIds :
          BecomesReady(self, connId)
              => agents'[self].connections[connId].peer \notin getPeers(agents[self])]_vars
\* the agent at self right after the clean-up of a tick that starts now
CleanedUp(self) == cleanUp(tickAcquired(Handling(agents[self]))).ag

\* C28: right after the clean-up of a tick no tracked Ready connection has a
\* dead transport, no tracked connection that is not Ready is older than
\* peerConnectionTimeout, and no connection attempt timestamp is older than
\* peerConnectionAttemptInterval; a Ready connection whose transport is alive
\* is not removed by the clean-up.
C28_CleanUpRemovesTheStaleOnly ==
    \A self \in Agents :
        \E after \in {CleanedUp(self)} :
            /\ \A connId \in DOMAIN after.connections :
                  IF after.connections[connId].status = "Ready"
                  THEN checkConnection(connId)
                  ELSE after.connections[connId].timestamp # "old"
            /\ \A ep \in DOMAIN after.connectionAttemptTimestamps :
                  after.connectionAttemptTimestamps[ep] # "old"
            /\ \A connId \in DOMAIN agents[self].connections :
                  (/\ agents[self].connections[connId].status = "Ready"
                   /\ checkConnection(connId))
                      => /\ MapHas(after.connections, connId)
                         /\ after.connections[connId] = agents[self].connections[connId]

\* an agent tracks a Ready connection whose transport is alive and a
\* connection that the clean-up of its next tick removes
C28_Witness ==
    \E self \in Agents :
        /\ agents[self].started
        /\ \E connId \in DOMAIN agents[self].connections :
              /\ agents[self].connections[connId].status = "Ready"
              /\ checkConnection(connId)
        /\ \E connId \in DOMAIN agents[self].connections :
              ~MapHas(CleanedUp(self).connections, connId)
\* this step is the end of a tick of the agent at self: it has run
\* checkPeers and released the lock
TickEnds(self) ==
    /\ Tick(self) \/ TickResumes(self)
    /\ agents'[self].tickLock = "free"

\* the endpoints that the agent at self has connections to and that its peer
\* source does not recognize
Unrecognized(self) ==
    {ep \in Endpoints : getPeerForEndpoint(self, ep) = Undefined}

\* after this step every connection listed for ep is released
ReleasedAfter(self, ep) ==
    MapHas(agents'[self].connectionsPerEndpoint, ep) =>
        \A i \in 1..Len(agents'[self].connectionsPerEndpoint[ep]) :
            net'[agents'[self].connectionsPerEndpoint[ep][i]].state # "open"

\* after this step the agent tracks no connection to ep
RemovedAfter(self, ep) ==
    /\ ~MapHas(agents'[self].connectionsPerEndpoint, ep)
    /\ \A c \in DOMAIN agents'[self].connections :
          agents'[self].connections[c].peer # ep

\* C34: when the peer source no longer recognizes an endpoint, then at the
\* end of the next tick every connection of the agent to it is released and
\* gone from the agent's tables: getPeers() does not report the endpoint and
\* sendToPeer to it returns false.
C34_UnrecognizedIsDroppedByTick ==
    [][\A self \in Agents : TickEnds(self) =>
          \A ep \in Unrecognized(self) :
              /\ ReleasedAfter(self, ep)
              /\ RemovedAfter(self, ep)
              /\ ep \notin getPeers(agents'[self])
              /\ ~sendToPeer(agents[self], ep)']_vars

\* C34 as the code has it: at the end of the tick every connection to the
\* endpoint is released, and sendToPeer to it returns false; the tables and
\* getPeers() are left to the handling of the Closed events
C34_UnrecognizedIsReleasedByTick ==
    [][\A self \in Agents : TickEnds(self) =>
          \A ep \in Unrecognized(self) :
              /\ ReleasedAfter(self, ep)
              /\ ~sendToPeer(agents[self], ep)']_vars

\* a tick has released the Ready connection to a peer that the peer source
\* has forgotten, and the agent still lists it
C34_Witness ==
    \E self \in Agents : \E ep \in Unrecognized(self) :
        /\ agents[self].tickLock = "free"
        /\ ep \in getPeers(agents[self])
        /\ MapHas(agents[self].connectionsPerEndpoint, ep)
        /\ \A i \in 1..Len(agents[self].connectionsPerEndpoint[ep]) :
              /\ net[agents[self].connectionsPerEndpoint[ep][i]].state = "closed"
              /\ \E k \in 1..Len(inbox[<<self, agents[self].connectionsPerEndpoint[ep][i]>>]) :
                    inbox[<<self, agents[self].connectionsPerEndpoint[ep][i]>>][k].type = "Closed"

(***************************************************************************)
(* C35: the agent dials a discovered peer exactly when the peer is known,  *)
(* is not the agent itself, fewer than minPeers endpoints are connected,   *)
(* no connection to the peer is tracked, and no attempt to it was made or  *)
(* the attempt interval has elapsed since the last one.                    *)
(***************************************************************************)
\* the agent at self, finding ep listening now, calls connect for it
Dials(self, ep) ==
    \E connId \in ConnIds :
        \E s \in {onOnlineEndpointDiscoveryAt(Handling(agents[self]), self, ep,
                                              connId, clock)} :
            \E i \in DOMAIN s.out : s.out[i] = Call("connect", connId, ep)

\* the milliseconds since the last attempt of self to connect to ep
SinceLastAttempt(self, ep) == clock - agents[self].connectionAttemptTimestamps[ep]

\* the conditions other than that on the last attempt
MayDial(self, ep) ==
    /\ getPeerForEndpoint(self, ep) # Undefined
    /\ ep # self
    /\ Cardinality(DOMAIN agents[self].connectionsPerEndpoint) < minPeers
    /\ ~MapHas(agents[self].connectionsPerEndpoint, ep)

\* C35, as claimed: the peer is dialed exactly when the conditions hold and at
\* least peerConnectionAttemptInterval has elapsed since the last attempt
C35_DialsOnceIntervalElapsed ==
    \A self, ep \in Endpoints :
        Running(self) =>
              (Dials(self, ep) <=>
                  /\ MayDial(self, ep)
                  /\ \/ ~MapHas(agents[self].connectionAttemptTimestamps, ep)
                     \/ SinceLastAttempt(self, ep)
                            >= peerConnectionAttemptInterval * 1000)

\* C35, amended: the peer is dialed exactly when the conditions hold and more
\* than peerConnectionAttemptInterval has elapsed since the last attempt, so
\* that two attempts are more than the interval apart
C35_DialsAfterIntervalElapsed ==
    \A self, ep \in Endpoints :
        Running(self) =>
              (Dials(self, ep) <=>
                  /\ MayDial(self, ep)
                  /\ \/ ~MapHas(agents[self].connectionAttemptTimestamps, ep)
                     \/ SinceLastAttempt(self, ep)
                            > peerConnectionAttemptInterval * 1000)

\* the agent at a has dialed b a second time, after the first connection closed
C35_Witness ==
    /\ net["c1"].state = "closed"
    /\ net["c2"].state = "requested"
    /\ net["c2"].ends = {"a", "b"}
    /\ MapHas(agents["a"].connectionAttemptTimestamps, "b")
    /\ agents["a"].connectionAttemptTimestamps["b"] > 0

(***************************************************************************)
(* C36: the connections an agent tracks to an endpoint belong to the       *)
(* instance pinned for it.                                                 *)
(***************************************************************************)
\* the tracked connections of self to ep whose transport reports an instance
InstancesTracked(self, ep) ==
    {RemoteInstanceId(connId, ep) :
        connId \in {c \in DOMAIN agents[self].connections :
                       agents[self].connections[c].peer = ep}} \ {Undefined}

\* C36, as claimed: once an instance id is pinned for an endpoint, no
\* connection reporting another instance id is tracked for it ever after
C36_OneInstanceForLife ==
    \A instance \in InstancesOf("b") \ {Undefined} :
        [](MapGet(agents["a"].instanceIdPerEndpoint, "b") = instance
              => [](InstancesTracked("a", "b") \subseteq {instance}))

\* C36, amended: at any time the connections tracked to an endpoint that
\* report an instance id report the one that is pinned for it then
C36_OneInstanceAtATime ==
    \A self, ep \in Endpoints :
        InstancesTracked(self, ep) # {} =>
            /\ MapHas(agents[self].instanceIdPerEndpoint, ep)
            /\ InstancesTracked(self, ep) = {agents[self].instanceIdPerEndpoint[ep]}

\* while an instance of b is pinned and still connected, b has connected as
\* another instance, and that connection was refused
C36_Witness ==
    /\ MapGet(agents["a"].instanceIdPerEndpoint, "b") = InstanceOf("b")
    /\ MapHas(agents["a"].connections, "c1")
    /\ net["c1"].state = "open"
    /\ "instance" \in DOMAIN net["c2"]
    /\ net["c2"].instance = "j-b"
    /\ net["c2"].state = "closed"
    /\ ~MapHas(agents["a"].connections, "c2")

(***************************************************************************)
(* C40: a connection for which the transport reports no remote instance    *)
(* passes the instance checks.                                             *)
(***************************************************************************)
\* the connections to self for which the transport reports no instance
InstanceLess(self) ==
    {connId \in ConnIds :
        /\ net[connId].state \in {"requested", "open"}
        /\ self \in net[connId].ends
        /\ RemoteInstanceId(connId, OtherEnd(connId, self)) = Undefined}

\* C40: such a connection passes checkConnectionRemoteInstance, the check
\* made before it is accepted, when it is established and when an offer
\* arrives, and attemptToSetRemoteInstance, the check made when it is added,
\* be an instance pinned for its endpoint or not
C40_InstanceLessPassesEveryCheck ==
    \A self \in Endpoints :
        Running(self) =>
            \A connId \in InstanceLess(self) :
                /\ checkConnectionRemoteInstance(Handling(agents[self]), self, connId)
                /\ attemptToSetRemoteInstance(Handling(agents[self]), self,
                                              connId).result

\* what holds: such a connection passes attemptToSetRemoteInstance always,
\* and checkConnectionRemoteInstance exactly when no instance is pinned
C40_InstanceLessPassesUnlessPinned ==
    \A self \in Endpoints :
        Running(self) =>
            \A connId \in InstanceLess(self) :
                /\ attemptToSetRemoteInstance(Handling(agents[self]), self,
                                              connId).result
                /\ checkConnectionRemoteInstance(Handling(agents[self]), self, connId)
                       <=> ~MapHas(agents[self].instanceIdPerEndpoint,
                                   OtherEnd(connId, self))

\* what holds: while an instance is pinned for its endpoint, a connection
\* without an instance that is requested is not added
C40_InstanceLessRefusedWhenPinned ==
    [][\A self \in Endpoints, connId \in ConnIds :
          /\ Running(self)
          /\ connId \in InstanceLess(self)
          /\ MapHas(agents[self].instanceIdPerEndpoint, OtherEnd(connId, self))
          /\ ~MapHas(agents[self].connections, connId)
          => ~MapHas(agents'[self].connections, connId)]_vars

(***************************************************************************)
(* C37: the endpoints a discovery round queries.                           *)
(***************************************************************************)
\* the endpoints that queryForOnlinePeers of self, resumed now with the
\* answer of its peer source, hands to queryForListeningAddresses
Queried(self) ==
    LET s == queryCandidates(Handling(agents[self]), self,
                             getPeersOfSource(self, minPeers * 5))
    IN  UNION {Range(s.out[i].arg) :
                  i \in {j \in DOMAIN s.out :
                            s.out[j].type = "queryForListeningAddresses"}}

\* the candidates that are not self, not connected and not recently queried
Eligible(self) ==
    {ep \in Range(getPeersOfSource(self, minPeers * 5)) :
        /\ ep # self
        /\ ~MapHas(agents[self].connectionsPerEndpoint, ep)
        /\ ~MapHas(agents[self].onlineQueryTimestamps, ep)}

\* the endpoints self has recently tried to connect to
RecentlyAttempted(self) ==
    {ep \in DOMAIN agents[self].connectionAttemptTimestamps :
        agents[self].connectionAttemptTimestamps[ep] = "new"}

\* the endpoints the round still looks for
Wanted(self) == minPeers - Cardinality(DOMAIN agents[self].connectionsPerEndpoint)

\* a discovery round of self waits for the answer of its peer source
InRound(self) == Running(self) /\ agents[self].ticking > 0

\* C37: the round queries at most minPeers - |connectionsPerEndpoint|
\* endpoints, none of them self, connected or recently queried, and one with
\* a recent connection attempt only when fewer than that many candidates
\* without one were found
C37_QueriesWhatTheRoundLacks ==
    \A self \in Endpoints :
        InRound(self) =>
            /\ Cardinality(Queried(self)) <= Wanted(self)
            /\ Queried(self) \subseteq Eligible(self)
            /\ Queried(self) \cap RecentlyAttempted(self) # {} =>
                   Cardinality(Eligible(self) \ RecentlyAttempted(self)) < Wanted(self)

\* what holds: the round queries none of self, the connected and the recently
\* queried endpoints, and at most minPeers of the others
C37_QueriesEligibleOnly ==
    \A self \in Endpoints :
        InRound(self) =>
            /\ Cardinality(Queried(self)) <= minPeers
            /\ Queried(self) \subseteq Eligible(self)

(***************************************************************************)
(* C39: connectionsPerEndpoint is the index of connections by endpoint.    *)
(***************************************************************************)
\* the connections self tracks to ep
ConnectionsTo(self, ep) ==
    {connId \in DOMAIN agents[self].connections :
        agents[self].connections[connId].peer = ep}

\* C39: connectionsPerEndpoint[ep] lists exactly the connection ids c with
\* connections[c].peer.endpoint = ep, each once, and no endpoint maps to an
\* empty list
C39_PerEndpointIndexesConnections ==
    \A self, ep \in Endpoints :
        IF MapHas(agents[self].connectionsPerEndpoint, ep)
        THEN LET conns == agents[self].connectionsPerEndpoint[ep]
             IN  /\ conns # <<>>
                 /\ Range(conns) = ConnectionsTo(self, ep)
                 /\ Cardinality(Range(conns)) = Len(conns)
        ELSE ConnectionsTo(self, ep) = {}

\* a tracks two connections to b, after a third one was closed and removed
C39_Witness ==
    /\ MapHas(agents["a"].connectionsPerEndpoint, "b")
    /\ Len(agents["a"].connectionsPerEndpoint["b"]) = 2
    /\ \E connId \in AllConnIds :
          /\ net[connId].state = "closed"
          /\ "a" \in net[connId].ends
          /\ ~MapHas(agents["a"].connections, connId)


(***************************************************************************)
(* PROPERTIES: HASHED OBJECTS                                              *)
(***************************************************************************)
\* the last call was fromContextWithValidation(context, hash) on a context
\* whose objects map did not hold hash
ValidatedAfresh ==
    /\ outcome.op = "validate"
    /\ outcome.hash \notin DOMAIN outcome.before.objects

\* what the call is to check of the object it rebuilt from the literal
Acceptable(obj, objHash, literal) ==
    /\ hashOf(obj) = objHash
    /\ Get(obj, "author").k # "undefined" =>
           /\ literal.signature.defined
           /\ verifySignature(Get(obj, "author"), objHash, literal.signature) = "true"
    /\ validate(obj) = "true"

\* C11: a call of fromContextWithValidation(context, hash) on a context whose
\* objects map does not hold hash resolves only with an object that hashes to
\* hash, whose signature (if it has an author) verifies with the author's
\* key, and whose validate() returned true; otherwise it rejects, and the
\* objects map of the context has no entry for hash afterwards.
C11_RejectedLeavesNoObject ==
    ValidatedAfresh =>
        IF outcome.result = "resolved"
        THEN Acceptable(outcome.something, outcome.hash,
                        outcome.before.literals[outcome.hash])
        ELSE outcome.hash \notin DOMAIN ctx.objects

\* the part of C11 that holds: what the call resolves with is acceptable
C11_ResolvedIsAcceptable ==
    (ValidatedAfresh /\ outcome.result = "resolved") =>
        Acceptable(outcome.something, outcome.hash,
                   outcome.before.literals[outcome.hash])

\* the call rejected for a hash and left the object it rebuilt in the context
C11_RejectedAndKept ==
    /\ ValidatedAfresh
    /\ outcome.result = "rejected"
    /\ outcome.hash \in DOMAIN ctx.objects

\* C12: every literal in the backend whose object has an author carries a
\* signature over the object's hash.
C12_StoredSignatureCoversHash ==
    \A h \in DOMAIN saved :
        Get(saved[h].value.fields, "author").k # "undefined" =>
            /\ saved[h].signature.defined
            /\ saved[h].signature.hash = h

\* the parts of C12 that hold: a save of an authored object marked
\* sign-on-save stores it with a signature the store made over its hash, and
\* a save of an authored object that has no signature and is not marked
\* throws and stores nothing
C12_SignsMarkedRefusesUnsigned ==
    (outcome.op = "save" /\ Get(outcome.object, "author").k # "undefined") =>
        /\ (outcome.object.signOnSave /\ ~outcome.thrown) =>
               /\ outcome.hash \in DOMAIN saved
               /\ outcome.hash \notin DOMAIN outcome.before =>
                      saved[outcome.hash].signature =
                          Signature("ka", outcome.hash)
        /\ (~outcome.object.signOnSave /\ ~outcome.object.lastSignature.defined) =>
               /\ outcome.thrown
               /\ saved = outcome.before

\* a literal of an authored object is stored with a signature over another hash
C12_StaleSignatureStored ==
    \E h \in DOMAIN saved :
        /\ Get(saved[h].value.fields, "author").k # "undefined"
        /\ saved[h].signature.defined
        /\ saved[h].signature.hash # h

\* every present child in a derived field of obj has the id derived from the
\* id of obj and the name of the field, and so on down the derived fields
RECURSIVE DerivedIdsHold(_)
DerivedIdsHold(obj) ==
    \A fieldName \in obj.derived :
        Get(obj, fieldName).k = "object" =>
            /\ getId(Get(obj, fieldName)) = getDerivedFieldId(obj, fieldName)
            /\ checkDerivedField(obj, fieldName)
            /\ DerivedIdsHold(Get(obj, fieldName))

\* C18: after setId(x) on a parent object, every present child held in a
\* field registered as derived has the id H('#' + x + '.' + fieldName),
\* recursively down the tree of derived fields, and checkDerivedField is true
\* for each of them.
C18_SetIdDerivesChildIds ==
    outcome.op = "setId" => (getId(held) = outcome.id /\ DerivedIdsHold(held))

\* setId(x) was called on a folder whose child had been given an id of its
\* own, and which holds a folder with a child in a derived field
C18_Witness ==
    /\ outcome.op = "setId"
    /\ held.cls = "Folder"
    /\ Get(held, "first").k = "object"
    /\ Get(held, "first").cls = "Folder"
    /\ Get(Get(held, "first"), "first").k = "object"
    /\ ~DerivedIdsHold(outcome.before)

\* the literal of an object: its class, its fields and its dependencies
LiteralOf(obj) ==
    With(toObjectContext(obj), LAMBDA c :
        [class |-> c.literals[c.rootHashes[1]].value.class,
         fields |-> c.literals[c.rootHashes[1]].value.fields,
         dependencies |-> c.literals[c.rootHashes[1]].dependencies])

\* C19: clone(o) has the hash of o, and the object deliteralized from the
\* literals o was literalized into has the literal (class, fields,
\* dependencies) of o; likewise the object that fromContextWithValidation
\* rebuilt from received literals has the literal it was rebuilt from.
C19_CloneAndRoundTripKeepLiteral ==
    /\ outcome.op = "clone" =>
           /\ hashOf(held) = hashOf(outcome.original)
           /\ LiteralOf(held) = LiteralOf(outcome.original)
    /\ (outcome.op = "validate" /\ outcome.result = "resolved"
           /\ outcome.something.cls # "Identity") =>
           /\ hashOf(outcome.something) = outcome.hash
           /\ LiteralOf(outcome.something).fields =
                  outcome.before.literals[outcome.hash].value.fields
           /\ LiteralOf(outcome.something).dependencies =
                  outcome.before.literals[outcome.hash].dependencies

\* an object with an array, a dictionary, a reference, nested objects and
\* fields that are not literalized was cloned
C19_Witness ==
    /\ outcome.op = "clone"
    /\ Get(outcome.original, "render").k = "function"
    /\ Get(outcome.original, "tags").k = "array"
    /\ Get(held, "render").k = "undefined"
    /\ held # outcome.original
\* the call of p was made for a hash whose object another call had
\* registered and was still checking
CalledDuringCheck(p) == inFlight[p].pc # "idle" /\ inFlight[p].early

\* C33: a call of fromContextWithValidation made for a hash while another
\* call on the same context has registered the object of that hash and still
\* awaits its signature check or its validate() returns that object at once,
\* unchecked, and keeps it whatever the other call does afterwards, also when
\* it rejects.
C33_OverlappingCallReturnsRegistered ==
    \A p \in Procs :
        CalledDuringCheck(p) =>
            /\ inFlight[p].pc = "resolved"
            /\ inFlight[p].something = inFlight[p].registered
            /\ inFlight[p].something.k = "object"

\* the second call has returned the object and the first has rejected it
C33_Witness ==
    \E p \in Procs, q \in Procs :
        /\ CalledDuringCheck(p)
        /\ inFlight[p].pc = "resolved"
        /\ inFlight[q].pc = "rejected"
        /\ inFlight[q].hash = inFlight[p].hash
        /\ inFlight[q].error \in {"InvalidSignature", "ValidationFailed"}
        /\ inFlight[p].hash \notin DOMAIN ctx.objects
        /\ ~Acceptable(inFlight[p].something, inFlight[p].hash,
                       ctx.literals[inFlight[p].hash])

(***************************************************************************)
(*                    PROPERTIES: WATCH CALLBACKS                          *)
(***************************************************************************)
\* the literal of hash matches the registration r
MatchesWatch(r, hash) ==
    CASE r.table = "class" -> getClassName(hash) = r.key
      [] r.table = "references" ->
            \E dep \in Range(Dependencies(hash)) :
                dep.path = r.key.path /\ dep.hash = r.key.hash
      [] r.table = "classReferences" ->
            /\ getClassName(hash) = r.key.className
            /\ \E dep \in Range(Dependencies(hash)) :
                    dep.path = r.key.path /\ dep.hash = r.key.hash

\* the callbacks of the registrations that the literal of hash matches, in
\* the order they were registered
MatchingInOrder(registered, hash) ==
    With(SelectSeq(registered, LAMBDA r : MatchesWatch(r, hash)), LAMBDA m :
        [i \in 1..Len(m) |-> m[i].callback])

CalledCallbacks == [i \in 1..Len(last.called) |-> last.called[i][1]]

\* C14: when a persisted literal matches several watch callbacks, they are
\* all called, in the order they were registered, whichever of them throw.
C14_AllMatchingCalledInOrder ==
    ("called" \in DOMAIN last) =>
        CalledCallbacks = MatchingInOrder(last.registered, last.hash)

\* C14, the part that holds: with no callback throwing, exactly the matching
\* callbacks are called
C14_NoThrowCallsEveryMatching ==
    ("called" \in DOMAIN last /\ last.throwing = {}) =>
        Range(CalledCallbacks) = Range(MatchingInOrder(last.registered, last.hash))

\* C14, the order alone: with no callback throwing, the calls are in
\* registration order
C14_NoThrowInRegistrationOrder ==
    ("called" \in DOMAIN last /\ last.throwing = {}) =>
        CalledCallbacks = MatchingInOrder(last.registered, last.hash)

\* C14, the throwing alone: every matching callback is called, in whatever
\* order, whichever of them throw
C14_ThrowKeepsOthersRunning ==
    ("called" \in DOMAIN last) =>
        Range(CalledCallbacks) = Range(MatchingInOrder(last.registered, last.hash))

(***************************************************************************)
(*                    PROPERTIES: FILTERED STREAM SOURCE                   *)
(***************************************************************************)
\* C20: the filtered source is subscribed to the new items of its upstream
\* exactly while it has a subscriber for new items, and to its end exactly
\* while it has a subscriber for the end, whatever was subscribed and
\* unsubscribed; its subscribers are only handed items the filter lets
\* through.
C20_SubscribedUpstreamWhileSubscribedTo ==
    /\ (upstreamItemCallbackRef \in src.itemSubscriptions)
            <=> (filtered.itemSubscribers # <<>>)
    /\ (upstreamEndCallbackRef \in src.endSubscriptions)
            <=> (filtered.endSubscribers # <<>>)
    /\ \A cb \in Subscribers :
            \A i \in 1..Len(filtered.got[cb]) : filtered.got[cb][i] % 2 = 0

\* every subscriber has unsubscribed again, after one of them was handed an
\* item while another item was held back
C20_Witness ==
    /\ filtered.itemSubscribers = <<>>
    /\ upstreamItemCallbackRef \notin src.itemSubscriptions
    /\ \E cb \in Subscribers :
            /\ filtered.got[cb] # <<>>
            /\ Len(filtered.got[cb]) < sghost.ingested
\* the InvalidateAfterOps that this step stores
SavedInvalidateAfterOps ==
    {inv \in Stored(backend') \ Stored(backend) :
        getClassName(inv) = "InvalidateAfterOp"}

\* the ops stored before this step that have the target op of inv among
\* their causal ops
StoredConsequences(inv) ==
    {o \in Stored(backend) : IsMutationOp(o) /\ getTargetOp(inv) \in getCausalOps(o)}

\* C24: when an InvalidateAfterOp inv is saved, CascadedInvalidateOp(o, inv)
\* is stored for an op o that was stored before and has the target op of inv
\* among its causal ops if and only if o is outside the prevOps-closure of
\* the terminal ops of inv.
C24_CascadesExactlyOutsideClosure ==
    [][\A inv \in SavedInvalidateAfterOps : \A o \in StoredConsequences(inv) :
          CascHash(o, inv) \in Stored(backend')
              <=> o \notin PrevOpsClosure(getTerminalOps(inv))]_vars
\* the backend left by store.save(first, false) and then, once it has
\* returned or thrown, store.save(second, false), from the backend b
SavedInTurn(b, first, second) ==
    With(saveObject(first, [backend |-> b, context |-> {}, unsaved |-> unsaved,
                            stored |-> <<>>, fired |-> <<>>, err |-> NoError]),
         LAMBDA st : saveObject(second, [st EXCEPT !.err = NoError]).backend)

\* the calls of p and q have both returned, that of q having begun while
\* that of p was running
Overlapped(p, q) ==
    /\ p # q
    /\ inFlight[p].pc = "done"
    /\ inFlight[q].pc = "done"
    /\ inFlight[q].overlaps

\* the CascadedInvalidateOp of the op that p1 saves and the invalidation
\* that p2 saves
RacedCascade == CascHash(inFlight["p1"].hash, inFlight["p2"].hash)

\* C25: when an op o caused by c and an invalidation inv of c are saved by
\* two overlapping save() calls, then once both calls have returned the
\* backend holds CascadedInvalidateOp(o, inv) whenever it would hold it after
\* the two calls made one after the other, in the order they were made.
C25_OverlappingSavesCascade ==
    \A p, q \in Procs :
        ( /\ Overlapped(p, q)
          /\ RacedCascade \in Stored(SavedInTurn(inFlight[p].base, inFlight[p].hash,
                                                 inFlight[q].hash)) )
        => RacedCascade \in Stored(backend)

\* what holds of overlapping calls: the backend holds the cascade whenever
\* the two calls made one after the other leave it in both orders
C25_CascadeOfBothOrders ==
    \A p, q \in Procs :
        ( /\ Overlapped(p, q)
          /\ RacedCascade \in Stored(SavedInTurn(inFlight[p].base, inFlight[p].hash,
                                                 inFlight[q].hash))
          /\ RacedCascade \in Stored(SavedInTurn(inFlight[p].base, inFlight[q].hash,
                                                 inFlight[p].hash)) )
        => RacedCascade \in Stored(backend)

\* and it holds the cascade only if one of the two orders leaves it
C25_CascadeOfSomeOrder ==
    \A p, q \in Procs :
        ( /\ Overlapped(p, q)
          /\ RacedCascade \in Stored(backend) )
        => \/ RacedCascade \in Stored(SavedInTurn(inFlight[p].base, inFlight[p].hash,
                                                  inFlight[q].hash))
           \/ RacedCascade \in Stored(SavedInTurn(inFlight[p].base, inFlight[q].hash,
                                                  inFlight[p].hash))
\* the CascadedInvalidateOps that the backend b holds
Cascades(b) == {h \in Stored(b) : getClassName(h) = "CascadedInvalidateOp"}

\* o and inv are yet to be saved and can be, in either order: inv
\* invalidates a causal op of o and does not leave o valid
YetToSave(o, inv) ==
    /\ getClassName(o) = "MutationOp"
    /\ getClassName(inv) = "InvalidateAfterOp"
    /\ o \notin Stored(backend)
    /\ inv \notin Stored(backend)
    /\ MissingDependencies(o) = {}
    /\ MissingDependencies(inv) = {}
    /\ getTargetOp(inv) \in getCausalOps(o)
    /\ o \notin PrevOpsClosure(getTerminalOps(inv))

\* C26: for an op o caused by c and an InvalidateAfterOp inv of c that does
\* not leave o valid, the CascadedInvalidateOps in the backend after both are
\* saved are the same whether o is saved before inv or inv before o,
\* whatever mutable objects the two are about.
C26_CascadesWhateverTheOrder ==
    \A o \in AllHashes, inv \in AllHashes :
        YetToSave(o, inv)
            => Cascades(SavedInTurn(backend, o, inv))
                   = Cascades(SavedInTurn(backend, inv, o))

\* what holds: the two orders leave the same CascadedInvalidateOps when o
\* and inv are about the same mutable object
C26_SameTargetWhateverTheOrder ==
    \A o \in AllHashes, inv \in AllHashes :
        (YetToSave(o, inv) /\ getTargetObject(o) = getTargetObject(inv))
            => Cascades(SavedInTurn(backend, o, inv))
                   = Cascades(SavedInTurn(backend, inv, o))
\* C29: every MutationOp literal in the backend is stored with an op header
\* whose prevOpHeaders are the stored headers of its prevOps, each of them
\* stored with a header; a save that cannot load the stored header of a
\* prevOp fails and does not store the literal of the op.
C29_OpsStoredWithPrevOpHeaders ==
    /\ \A h \in Stored(backend) :
          IsMutationOp(h) =>
              /\ backend[h].header.defined
              /\ backend[h].header.prevOpHeaders = getPrevOps(h)
              /\ \A prevOp \in getPrevOps(h) :
                    /\ prevOp \in Stored(backend)
                    /\ backend[prevOp].header.defined
    /\ last.err = "missingPrevOpHeader" =>
          \A h \in AllHashes :
              (\E prevOp \in getPrevOps(h) :
                  prevOp \notin Stored(backend) \/ ~backend[prevOp].header.defined)
                  => h \notin Stored(backend)

\* ops are stored that follow other ops, and a save has failed for the
\* header of a prevOp that is stored with none
C29_Witness ==
    /\ last.err = "missingPrevOpHeader"
    /\ H("t") \in Stored(backend)
    /\ H("m1") \in Stored(backend)
    /\ H(Unheaded) \notin Stored(backend)
\* C30: in every state of the backend, also after a save that failed midway,
\* every dependency listed in a stored literal is stored too.
C30_StoredDependenciesAreStored ==
    \A h \in Stored(backend) :
        \A dep \in Range(Dependencies(h)) : dep.hash \in Stored(backend)

\* the part that holds: the objects nested in a stored object are stored
C30_StoredNestedAreStored ==
    \A h \in Stored(backend) :
        \A dep \in Range(Dependencies(h)) :
            dep.type = "literal" => dep.hash \in Stored(backend)
\* Store.ts 262-294 run for object on the backend b: the CascadedInvalidateOps
\* that direction A saves
DirectionA(b, object) ==
    IF ~IsMutationOp(object) THEN {}
    ELSE {CascHash(object, inv) :
             inv \in {i \in UNION {loadAllInvalidations(b, causalOp) :
                                      causalOp \in getCausalOps(object)} :
                         shouldCascade(object, i)}}

\* Store.ts 296-334 run for object on the backend b: the CascadedInvalidateOps
\* that direction B saves
DirectionB(b, object) ==
    IF getClassName(object) = "InvalidateAfterOp"
    THEN {CascHash(conseqOp, object) :
             conseqOp \in InvalidConsequences(
                              loadAllConsequences(b, getTargetOp(object)),
                              loadPrevOpsClosure(b, getTerminalOps(object)).closure)}
    ELSE IF getClassName(object) = "CascadedInvalidateOp"
    THEN {CascHash(conseqOp, object) :
             conseqOp \in loadAllConsequences(b, getTargetOp(object))}
    ELSE {}

\* the objects that this step saves with store.save(object, false) while
\* their hash is in the backend
SavedAgain ==
    {h \in {H(n) : n \in Names} : h \in Stored(backend) /\ Save(h, FALSE)}

\* C31: a save that reaches an object whose hash is already in the backend
\* does not persist it again, and still runs the causal-invalidation
\* maintenance for it: the CascadedInvalidateOps of directions A and B are in
\* the backend afterwards.
C31_StoredObjectStillMaintained ==
    [][\A h \in SavedAgain :
          /\ backend'[h] = backend[h]
          /\ DirectionA(backend, h) \cup DirectionB(backend, h)
                 \subseteq Stored(backend')]_vars

\* what the code does: a save that reaches a stored object changes nothing
\* in the backend
C31_StoredObjectIsSkippedWhole ==
    [][\A h \in SavedAgain : backend' = backend]_vars
\* the literal of hash has the class of the registration r and a dependency
\* at its path, on whatever hash
MatchesClassAndPath(r, hash) ==
    /\ getClassName(hash) = r.key.className
    /\ \E dep \in Range(Dependencies(hash)) : dep.path = r.key.path

\* C32: a callback registered with watchClassReferences(className, path,
\* referencedHash) is called for a persisted literal only if the literal has
\* the class className and a dependency at path on the hash referencedHash.
C32_CalledOnlyForTheWatchedHash ==
    ("called" \in DOMAIN last) =>
        \A i \in 1..Len(last.called) :
            \E r \in Range(last.registered) :
                /\ r.callback = last.called[i][1]
                /\ MatchesWatch(r, last.hash)

\* what the code gives: the callback is called only for a literal of the
\* class with a dependency at the path
C32_CalledOnlyForClassAndPath ==
    ("called" \in DOMAIN last) =>
        \A i \in 1..Len(last.called) :
            \E r \in Range(last.registered) :
                /\ r.callback = last.called[i][1]
                /\ MatchesClassAndPath(r, last.hash)

(***************************************************************************)
(* C38: atEnd() of a consumer, against the end of its source.              *)
(***************************************************************************)
\* C38: for every consumer, atEnd() is true exactly when close() has been
\* called on it, or the source has signalled its end and the buffer of the
\* consumer is empty, whenever the consumer was constructed
C38_AtEndExactlyWhenClosedOrDrained ==
    \A k \in Consumers :
        stream[k].made =>
            (atEnd(k) <=> \/ stream[k].isClosed
                          \/ sghost.ended /\ Len(stream[k].buffer) = 0)

\* what holds: atEnd() is true only when close() has been called or the
\* source has ended and the buffer is empty
C38_AtEndOnlyWhenClosedOrDrained ==
    \A k \in Consumers :
        stream[k].made /\ atEnd(k) =>
            \/ stream[k].isClosed
            \/ sghost.ended /\ Len(stream[k].buffer) = 0

\* what holds: a consumer that is subscribed when the source ends is told
C38_SubscribedConsumerIsTold ==
    [][\A k \in Consumers :
          stream[k].made /\ ~stream[k].isClosed /\ ~sghost.ended /\ sghost'.ended
              => stream'[k].isAtEnd]_vars

=============================================================================
